---------------------------- MODULE Spec2Model ----------------------------
(***************************************************************************)
(* A model of the liblscp client engine (src/src/client.c): the            *)
(* transaction engine (lscp_client_call / lscp_client_query), the result   *)
(* record, the response classifier built on _lscp_strtok, the notification *)
(* listener (_lscp_client_udp_proc) and the subscription wrappers.         *)
(*                                                                         *)
(* C strings are sequences of one-character strings.  A memory buffer is   *)
(* such a sequence too; it may hold NUL bytes written in place by the      *)
(* tokenizer, and the byte after its last element is the terminating NUL.  *)
(* A pointer to a string is <<>> (the null pointer) or <<s>>.              *)
(***************************************************************************)
EXTENDS Integers, Sequences, FiniteSets, TLC

----------------------------------------------------------------------------
(* Characters and C library helpers                                        *)

NUL == "NUL"
VT == "VT"
CR == "\r"
LF == "\n"

\* The characters of a string literal, as a C string.
Chars(s) == [i \in 1..Len(s) |-> SubSeq(s, i, i)]

\* isspace() of <ctype.h> in the C locale.
IsSpace(c) == c \in {" ", "\t", "\n", "\r", "\f", VT}

\* toupper() in the C locale.
ToUpper(c) ==
    CASE c = "a" -> "A" [] c = "b" -> "B" [] c = "c" -> "C" [] c = "d" -> "D"
      [] c = "e" -> "E" [] c = "f" -> "F" [] c = "g" -> "G" [] c = "h" -> "H"
      [] c = "i" -> "I" [] c = "j" -> "J" [] c = "k" -> "K" [] c = "l" -> "L"
      [] c = "m" -> "M" [] c = "n" -> "N" [] c = "o" -> "O" [] c = "p" -> "P"
      [] c = "q" -> "Q" [] c = "r" -> "R" [] c = "s" -> "S" [] c = "t" -> "T"
      [] c = "u" -> "U" [] c = "v" -> "V" [] c = "w" -> "W" [] c = "x" -> "X"
      [] c = "y" -> "Y" [] c = "z" -> "Z"
      [] OTHER -> c

\* The byte at index i of buffer b (1-based); the byte after the last one is
\* the terminating NUL.
At(b, i) == IF i >= 1 /\ i <= Len(b) THEN b[i] ELSE NUL

RECURSIVE StrEnd(_, _)
\* strchr(p, '\0'): the index of the first NUL at or after p.
StrEnd(b, p) == IF At(b, p) = NUL THEN p ELSE StrEnd(b, p + 1)

\* The C string that starts at index p of buffer b.
CStr(b, p) == SubSeq(b, p, StrEnd(b, p) - 1)

\* strncasecmp(b, kw, Len(kw)) == 0 for a buffer read from its start.
HasPrefixNoCase(b, kw) ==
    \A i \in 1..Len(kw) : ToUpper(At(b, i)) = ToUpper(kw[i])

\* strcasecmp(s, kw) == 0.
EqualNoCase(s, kw) ==
    /\ Len(s) = Len(kw)
    /\ \A i \in 1..Len(kw) : ToUpper(s[i]) = ToUpper(kw[i])

RECURSIVE SkipSeps(_, _, _)
\* p + strspn(p, seps).
SkipSeps(b, seps, p) ==
    IF At(b, p) # NUL /\ At(b, p) \in seps THEN SkipSeps(b, seps, p + 1) ELSE p

RECURSIVE FindSep(_, _, _)
\* strpbrk(p, seps): the index of the first separator at or after p, or 0.
FindSep(b, seps, p) ==
    IF At(b, p) = NUL THEN 0
    ELSE IF At(b, p) \in seps THEN p
    ELSE FindSep(b, seps, p + 1)

Digits == <<"0", "1", "2", "3", "4", "5", "6", "7", "8", "9">>

IsDigit(c) == \E d \in 1..10 : Digits[d] = c

DigitVal(c) == (CHOOSE d \in 1..10 : Digits[d] = c) - 1

RECURSIVE AtoiDigits(_, _, _)
AtoiDigits(s, p, acc) ==
    IF IsDigit(At(s, p)) THEN AtoiDigits(s, p + 1, acc * 10 + DigitVal(At(s, p)))
    ELSE acc

RECURSIVE LTrimIdx(_, _)
\* The index that _lscp_ltrim returns for the string at index p.
LTrimIdx(b, p) == IF IsSpace(At(b, p)) THEN LTrimIdx(b, p + 1) ELSE p

\* atoi(): leading white space, an optional sign, then decimal digits.
Atoi(s) ==
    LET p == LTrimIdx(s, 1)
        q == IF At(s, p) \in {"-", "+"} THEN p + 1 ELSE p
        v == AtoiDigits(s, q, 0)
    IN  IF At(s, p) = "-" THEN 0 - v ELSE v

\* _lscp_ltrim applied to a whole string.
LTrim(s) == CStr(s, LTrimIdx(s, 1))

----------------------------------------------------------------------------
(* _lscp_strtok                                                            *)

\* A tokenizer that takes the token from the cursor, separators included.
StrTokNoSkip(b, seps, p) ==
    LET s == p
        e == FindSep(b, seps, s)
    IN  IF At(b, s) = NUL THEN [tok |-> 0, buf |-> b, pch |-> p]
        ELSE IF e = 0 THEN [tok |-> s, buf |-> b, pch |-> StrEnd(b, s)]
        ELSE LET nb == [b EXCEPT ![e] = NUL]
             IN  [tok |-> s, buf |-> nb, pch |-> SkipSeps(nb, seps, e + 1)]

\* One scan of the custom tokenizer over buffer b from cursor p.  tok is the
\* index of the token (0: no token), buf the buffer after the in-place NUL
\* write, pch the cursor stored through ppch (left alone when no token).
StrTok(b, seps, p) ==
    LET s == SkipSeps(b, seps, p)
        e == FindSep(b, seps, s)
    IN  IF At(b, s) = NUL THEN [tok |-> 0, buf |-> b, pch |-> p]
        ELSE IF e = 0 THEN [tok |-> s, buf |-> b, pch |-> StrEnd(b, s)]
        ELSE LET nb == [b EXCEPT ![e] = NUL]
             IN  [tok |-> s, buf |-> nb, pch |-> SkipSeps(nb, seps, e + 1)]

----------------------------------------------------------------------------
(* _lscp_unquote and _lscp_szsplit_create                                  *)

RECURSIVE RTrimIdx(_, _, _)
\* while (isspace(*(p - 1)) && p > low) --p;
RTrimIdx(b, p, low) ==
    IF p > low /\ IsSpace(At(b, p - 1)) THEN RTrimIdx(b, p - 1, low) ELSE p

RECURSIVE FindQuote(_, _, _)
\* The index of the first chQuote or NUL at or after p.
FindQuote(b, chQuote, p) ==
    IF At(b, p) = NUL \/ At(b, p) = chQuote THEN p ELSE FindQuote(b, chQuote, p + 1)

\* _lscp_unquote(&psz, dup) for psz at index p of buffer b: buf is the
\* buffer that the returned string lives in (a copy when dup is set), str
\* the index of the returned string and head the index left in *ppsz.
Unquote(b, p, dup) ==
    LET q == LTrimIdx(b, p)
    IN  IF At(b, q) \in {"\"", "'"}
        THEN LET q2 == LTrimIdx(b, q + 1)
                 nb == IF dup THEN CStr(b, q2) ELSE b
                 st == IF dup THEN 1 ELSE q2
                 e == FindQuote(nb, At(b, q), st)
                 e2 == RTrimIdx(nb, e, st)
             IN  IF At(nb, e) = NUL THEN [buf |-> nb, str |-> st, head |-> e]
                 ELSE [buf |-> [nb EXCEPT ![e2] = NUL], str |-> st, head |-> e2 + 1]
        ELSE IF dup THEN [buf |-> CStr(b, q), str |-> 1, head |-> 1]
        ELSE [buf |-> b, str |-> q, head |-> p]

\* The string that _lscp_unquote(&psz, 1) returns for the text s.
UnquoteDup(s) == LET u == Unquote(s, 1, TRUE) IN CStr(u.buf, u.str)

RECURSIVE SplitLoop(_, _, _)
\* The loop of _lscp_szsplit_create over the copy b from pszHead = head,
\* with the indices of the items found so far.
SplitLoop(b, head, items) ==
    LET pch == FindSep(b, {","}, head)
    IN  IF pch = 0 THEN [i \in 1..Len(items) |-> CStr(b, items[i])]
        ELSE LET b1 == [b EXCEPT ![RTrimIdx(b, pch, items[1])] = NUL]
                 u == Unquote(b1, pch + 1, FALSE)
             IN  SplitLoop(u.buf, u.head, Append(items, u.str))

\* _lscp_szsplit_create(csv, ","): the items of the null terminated array.
SzSplit(csv) ==
    LET u == Unquote(csv, 1, TRUE) IN SplitLoop(u.buf, u.head, <<u.str>>)

----------------------------------------------------------------------------
(* Status codes, the result record and the response classifier             *)

LSCP_OK == "LSCP_OK"
LSCP_FAILED == "LSCP_FAILED"
LSCP_ERROR == "LSCP_ERROR"
LSCP_WARNING == "LSCP_WARNING"
LSCP_TIMEOUT == "LSCP_TIMEOUT"

\* The null pointer, and a pointer to the string (or buffer) s.
NULL == <<>>
Ptr(s) == <<s>>

\* "Timeout during receive operation"
TimeoutMsg ==
    <<"T", "i", "m", "e", "o", "u", "t", " ", "d", "u", "r", "i", "n", "g", " ",
      "r", "e", "c", "e", "i", "v", "e", " ", "o", "p", "e", "r", "a", "t", "i",
      "o", "n">>

\* The separators of lscp_client_query: ":[]".
QuerySeps == {":", "[", "]"}

RECURSIVE TrimCrLf(_)
\* The received bytes with trailing CR and LF bytes cut off.
TrimCrLf(b) ==
    IF Len(b) > 0 /\ b[Len(b)] \in {CR, LF} THEN TrimCrLf(SubSeq(b, 1, Len(b) - 1))
    ELSE b

\* What lscp_client_query makes of the bytes that a successful
\* lscp_client_call received: its return status, and the pszResult and iErrno
\* that it hands to _lscp_client_set_result.
ParseResponse(bytes) ==
    LET ach == TrimCrLf(bytes)
        ret == IF HasPrefixNoCase(ach, <<"E", "R", "R", ":">>) THEN LSCP_ERROR
               ELSE IF HasPrefixNoCase(ach, <<"W", "R", "N", ":">>) THEN LSCP_WARNING
               ELSE LSCP_OK
        t1 == StrTok(ach, QuerySeps, 1)
        t2 == StrTok(t1.buf, QuerySeps, t1.pch)
        t3 == StrTok(t2.buf, QuerySeps, t2.pch)
    IN  IF ret = LSCP_OK
        THEN IF HasPrefixNoCase(ach, <<"O", "K", "[">>)
             THEN [ret |-> ret, iErrno |-> 0,
                   pszResult |-> IF t1.tok # 0 /\ t2.tok # 0
                                 THEN Ptr(CStr(t2.buf, t2.tok)) ELSE NULL]
             ELSE [ret |-> ret, iErrno |-> 0, pszResult |-> Ptr(CStr(ach, 1))]
        ELSE IF t1.tok # 0 /\ t2.tok # 0
             THEN [ret |-> ret, iErrno |-> Atoi(CStr(t2.buf, t2.tok)),
                   pszResult |-> IF t3.tok # 0 THEN Ptr(CStr(t3.buf, t3.tok)) ELSE NULL]
             ELSE [ret |-> ret, iErrno |-> 0 - 1, pszResult |-> NULL]

\* _lscp_client_set_result: the stored result text is a copy of the given
\* text without its leading white space.
SetResultText(p) == IF p = NULL THEN NULL ELSE Ptr(LTrim(p[1]))

----------------------------------------------------------------------------
(* The session, its caller threads, its listener thread and the server     *)

\* Bounds of the model.
MaxQueries == 2
MaxDatagrams == 2

Threads == {"t1", "t2"}
NoThread == "none"

\* The session-ids that the server announces.
Ids == {<<"a">>, <<"b">>}

\* The addresses that datagrams come from.
Addrs == {"srv"}

\* The response lines that the server chooses from:
\* OK[42], ERR:5:no, and OK[b] after a blank.
Responses ==
    { <<"O", "K", "[", "4", "2", "]", CR, LF>>,
      <<"E", "R", "R", ":", "5", ":", "n", "o", CR, LF>>,
      <<" ", "O", "K", "[", "b", "]", CR, LF>> }

\* PING <port> <session-id>
PingDatagram(id) == <<"P", "I", "N", "G", " ", "5", " ">> \o id

\* The datagrams that the server chooses from: keepalives for each id, a
\* keepalive without a session-id field, and an event notification.
Datagrams ==
    { PingDatagram(id) : id \in Ids }
        \cup { <<"P", "I", "N", "G", " ", "5">>, <<"E", "V", "T">> }

\* What reading a released or null session-id can make of it besides its
\* former contents: the text printed for a null pointer.
NullText == <<"(", "n", "u", "l", "l", ")">>

\* The keyword and the space that a keepalive starts with.
PingPrefix == <<"P", "I", "N", "G", " ">>

\* A buffer on the stack that nothing has been written to yet.
Uninitialized == <<>>

\* Contents that the listener's buffer can have before the first datagram.
StackJunk == { [i \in 1..Len(PingPrefix) |-> NUL], PingPrefix }

VARIABLES
    sessid,      \* pClient->sessid
    pszResult,   \* pClient->pszResult, a pointer to the result buffer
    iErrno,      \* pClient->iErrno
    mutex,       \* the thread that holds pClient->mutex, or NoThread
    udpState,    \* pClient->udp.iState: the listener's running flag
    th,          \* the caller threads: position and locals of the running call
    wire,        \* requests sent on the TCP connection, not yet read by the server
    rx,          \* responses in the TCP receive buffer of the client
    udpIn,       \* datagrams waiting in the UDP socket of the client
    udpOut,      \* datagrams handed to sendto by the listener
    lst,         \* the listener thread: position and locals
    nQueries,    \* lscp_client_query invocations so far
    nDatagrams,  \* datagrams sent by the server so far
    sessWrites,  \* assignments of a session-id since the last successful unsubscribe
    tin,         \* input of the function under test (function specifications only)
    tout,        \* its output
    iTimeout,    \* pClient->iTimeout, in milliseconds
    cache,       \* the cached members of the session and the stream usage array
    handled,     \* the invocations of the notification handler, in order
    achBuffer,   \* the listener's achBuffer: the bytes that the keepalive test reads
    cr           \* lscp_client_create: its position, arguments and resources

vars ==
    <<sessid, pszResult, iErrno, mutex, udpState, th, wire, rx, udpIn, udpOut,
      lst, nQueries, nDatagrams, sessWrites, tin, tout, iTimeout, cache,
      handled, achBuffer, cr>>

sessionVars == <<sessid, pszResult, iErrno, mutex, udpState, sessWrites>>
netVars == <<wire, rx, udpIn, udpOut, nDatagrams>>
testVars == <<tin, tout>>
auxVars == <<iTimeout, cache, handled, achBuffer, cr>>

\* The default transaction timeout, in milliseconds.
LSCP_TIMEOUT_MSECS == 200

\* _lscp_driver_info_init, _lscp_engine_info_init, _lscp_channel_info_init.
DriverInfoInit == [description |-> NULL, version |-> NULL, parameters |-> NULL]
EngineInfoInit == [description |-> NULL, version |-> NULL]
ChannelInfoInit ==
    [engine_name |-> NULL, audio_device |-> 0, audio_channels |-> 0,
     audio_routing |-> NULL, instrument_file |-> NULL, instrument_nr |-> 0,
     midi_device |-> 0, midi_port |-> 0, midi_channel |-> 0, volume |-> 0]

\* The cached members as lscp_client_create leaves them.  buffer_fill is the
\* allocated array (NULL: none).
CacheInit ==
    [audio_drivers |-> NULL, midi_drivers |-> NULL, engines |-> NULL,
     audio_info |-> DriverInfoInit, midi_info |-> DriverInfoInit,
     engine_info |-> EngineInfoInit, channel_info |-> ChannelInfoInit,
     buffer_fill |-> NULL, iStreamCount |-> 0]

\* lscp_client_create after its last step: the descriptor is allocated, both
\* sockets are open, the mutex is initialised and the listener runs.
Created ==
    [pc |-> "done", pfnCallback |-> "cb", pvData |-> "ctx", host |-> "h1",
     mem |-> "alloc", tcp |-> "open", udp |-> "open", mutex |-> TRUE,
     thread |-> TRUE, step |-> "none", ret |-> "pClient"]

IdleThread ==
    [pc |-> "idle", op |-> "none", ret |-> LSCP_FAILED, req |-> 0,
     bytes |-> <<>>, got |-> {}, how |-> "none", errnoBefore |-> 0 - 1,
     call |-> "none", wait |-> "none", cmd |-> <<>>, arg |-> "none",
     usage |-> "none", out |-> "none"]

\* The state that lscp_client_create leaves.
SessionInit ==
    /\ sessid = NULL
    /\ pszResult = NULL
    /\ iErrno = 0 - 1
    /\ mutex = NoThread
    /\ udpState = TRUE
    /\ th = [t \in Threads |-> IdleThread]
    /\ wire = <<>>
    /\ rx = <<>>
    /\ udpIn = <<>>
    /\ udpOut = <<>>
    /\ lst = [pc |-> "recv", tok |-> NULL, from |-> "none", stale |-> FALSE,
              adopted |-> FALSE]
    /\ nQueries = 0
    /\ nDatagrams = 0
    /\ sessWrites = 0
    /\ iTimeout = LSCP_TIMEOUT_MSECS
    /\ cache = CacheInit
    /\ handled = <<>>
    /\ achBuffer = Uninitialized
    /\ cr = Created

Init ==
    /\ SessionInit
    /\ tin = <<>>
    /\ tout = <<>>

----------------------------------------------------------------------------
(* lscp_client_query and lscp_client_call, one caller thread t             *)

\* A lock that lets every caller in.
MutexNeverHeld == TRUE

\* lscp_mutex_lock returns only when no thread holds the mutex.
MutexFree == mutex = NoThread

RECURSIVE Flatten(_)
\* The bytes of a sequence of buffered responses, in order.
Flatten(q) == IF q = <<>> THEN <<>> ELSE Head(q).text \o Flatten(Tail(q))

\* Locals that start from the session's error code instead of -1.
QueryLocalsKeepErrno == [ret |-> LSCP_FAILED, pszResult |-> NULL, iErrno |-> iErrno]

\* The locals of lscp_client_query before the transaction: ret = LSCP_FAILED,
\* pszResult = NULL, iErrno = -1.
QueryLocals == [ret |-> LSCP_FAILED, pszResult |-> NULL, iErrno |-> 0 - 1]

\* A timeout that is not told apart from a transport failure.
TimeoutAsFailure == QueryLocals

\* lscp_client_call returned LSCP_TIMEOUT: lscp_client_query sets the text.
TimeoutOutcome ==
    [QueryLocals EXCEPT !.ret = LSCP_TIMEOUT, !.pszResult = Ptr(TimeoutMsg)]

\* A setter that keeps the text it holds when it is given no text.
SetResultKeepsText(o) ==
    /\ pszResult' = IF o.pszResult = NULL THEN pszResult ELSE SetResultText(o.pszResult)
    /\ iErrno' = o.iErrno

\* _lscp_client_set_result(pClient, o.pszResult, o.iErrno), which ends every
\* transaction of lscp_client_query.
SetResult(o) ==
    /\ pszResult' = SetResultText(o.pszResult)
    /\ iErrno' = o.iErrno

\* lscp_client_get_result: the result text as a caller reads it.
GetResult == IF pszResult = NULL THEN NULL ELSE Ptr(CStr(pszResult[1], 1))

\* lscp_client_get_errno.
GetErrno == iErrno

\* The wait that lscp_client_call hands to select() for a timeout of ms
\* milliseconds.
Timeval(ms) ==
    IF ms > 1000
    THEN [ms |-> ms, tv_sec |-> ms \div 1000,
          tv_usec |-> (ms - (ms \div 1000) * 1000) * 1000]
    ELSE [ms |-> ms, tv_sec |-> 0, tv_usec |-> ms * 1000]

\* A call that reports a lapsed wait as a failure.
CallReturnNoTimeout(event) == IF event = "recv" THEN LSCP_OK ELSE LSCP_FAILED

\* What lscp_client_call returns: LSCP_OK when recv() read at least one
\* byte, LSCP_TIMEOUT when select() returned 0, LSCP_FAILED when send() took
\* less than the request ("send"), select() failed ("select") or recv()
\* returned less than one byte ("read").
CallReturn(event) ==
    CASE event = "recv" -> LSCP_OK
      [] event = "timeout" -> LSCP_TIMEOUT
      [] OTHER -> LSCP_FAILED

\* lscp_client_set_timeout that takes any value.
TimeoutNeverRefused(v) == FALSE

\* lscp_client_set_timeout refuses a negative timeout.
TimeoutRefused(v) == v < 0

\* lscp_client_get_timeout.
GetTimeout == iTimeout

\* lscp_client_set_timeout(pClient, v); tin is the argument, tout the status
\* returned and the timeout that the session had before the call.
SetTimeout(v) ==
    /\ tin' = <<v>>
    /\ tout' = <<IF TimeoutRefused(v) THEN LSCP_FAILED ELSE LSCP_OK, iTimeout>>
    /\ iTimeout' = IF TimeoutRefused(v) THEN iTimeout ELSE v
    /\ UNCHANGED <<sessionVars, th, netVars, lst, nQueries, cache, handled, achBuffer, cr>>

\* A caller enters lscp_client_query with a command line of its own.
CallQuery(t) ==
    /\ th[t].pc = "idle"
    /\ nQueries < MaxQueries
    /\ nQueries' = nQueries + 1
    /\ th' = [th EXCEPT ![t] = [IdleThread EXCEPT !.pc = "lock", !.op = "query",
                                                  !.req = nQueries + 1]]
    /\ UNCHANGED <<sessionVars, netVars, lst, testVars, auxVars>>

RECURSIVE Dec(_)
\* What sprintf writes for %d and a number n >= 0.
Dec(n) == IF n < 10 THEN <<Digits[n + 1]>> ELSE Dec(n \div 10) \o <<Digits[(n % 10) + 1]>>

\* The port of the UDP socket, in host byte order.
UdpPort == 5

\* sprintf(szQuery, "SUBSCRIBE NOTIFICATION %d\r\n", port)
SubscribeQuery == Chars("SUBSCRIBE NOTIFICATION ") \o Dec(UdpPort) \o <<CR, LF>>

\* sprintf(szQuery, "UNSUBSCRIBE NOTIFICATION %s\n\n", pClient->sessid)
UnsubscribeQuery(id) == Chars("UNSUBSCRIBE NOTIFICATION ") \o id \o <<LF, LF>>

\* A test that lets lscp_client_subscribe go on while a session-id is bound.
RefusedUnboundOnly(op) == op = "unsubscribe" /\ sessid = NULL

\* The test that lscp_client_subscribe and lscp_client_unsubscribe make of
\* the session-id before anything else: subscribe is refused while one is
\* bound, unsubscribe while none is.
Refused(op) == IF op = "subscribe" THEN sessid # NULL ELSE sessid = NULL

\* lscp_client_subscribe or lscp_client_unsubscribe that is refused: it
\* returns LSCP_FAILED at once.
CallRefused(t, op) ==
    /\ th[t].pc = "idle"
    /\ nQueries < MaxQueries
    /\ Refused(op)
    /\ th' = [th EXCEPT ![t] = [IdleThread EXCEPT !.op = op, !.how = "args",
                                                  !.out = LSCP_FAILED]]
    /\ UNCHANGED <<sessionVars, netVars, lst, nQueries, testVars, auxVars>>

\* lscp_client_subscribe up to its call of lscp_client_query: refused while
\* a session-id is bound.
CallSubscribe(t) ==
    /\ th[t].pc = "idle"
    /\ nQueries < MaxQueries
    /\ ~Refused("subscribe")
    /\ nQueries' = nQueries + 1
    /\ th' = [th EXCEPT ![t] = [IdleThread EXCEPT !.pc = "lock", !.op = "subscribe",
                                                  !.cmd = SubscribeQuery,
                                                  !.req = nQueries + 1]]
    /\ UNCHANGED <<sessionVars, netVars, lst, testVars, auxVars>>

\* lscp_client_unsubscribe up to its call of lscp_client_query: refused
\* while no session-id is bound.
CallUnsubscribe(t) ==
    /\ th[t].pc = "idle"
    /\ nQueries < MaxQueries
    /\ ~Refused("unsubscribe")
    /\ nQueries' = nQueries + 1
    /\ th' = [th EXCEPT ![t] = [IdleThread EXCEPT !.pc = "lock", !.op = "unsubscribe",
                                                  !.cmd = UnsubscribeQuery(sessid[1]),
                                                  !.req = nQueries + 1]]
    /\ UNCHANGED <<sessionVars, netVars, lst, testVars, auxVars>>

\* lscp_mutex_lock.
QueryLock(t) ==
    /\ th[t].pc = "lock"
    /\ MutexFree
    /\ mutex' = t
    /\ th' = [th EXCEPT ![t].pc = "send", ![t].errnoBefore = iErrno]
    /\ UNCHANGED <<sessid, pszResult, iErrno, udpState, sessWrites, netVars, lst,
                   nQueries, testVars, auxVars>>

\* lscp_client_call: send() takes the whole request.
CallSend(t) ==
    /\ th[t].pc = "send"
    /\ wire' = Append(wire, th[t].req)
    /\ th' = [th EXCEPT ![t].pc = "wait", ![t].wait = Timeval(iTimeout)]
    /\ UNCHANGED <<sessionVars, rx, udpIn, udpOut, nDatagrams, lst, nQueries, testVars, auxVars>>

\* lscp_client_call: send() takes less than the request and the call returns
\* LSCP_FAILED; the result is set from the untouched locals.
CallSendFail(t) ==
    /\ th[t].pc = "send"
    /\ SetResult(QueryLocals)
    /\ th' = [th EXCEPT ![t].pc = "unlock", ![t].ret = QueryLocals.ret,
                        ![t].how = "send", ![t].call = CallReturn("send")]
    /\ UNCHANGED <<sessid, mutex, udpState, sessWrites, netVars, lst, nQueries, testVars, auxVars>>

\* lscp_client_call: select() finds the socket readable and recv() reads
\* what is buffered; lscp_client_query classifies the bytes and sets the
\* result.
CallRecv(t) ==
    /\ th[t].pc = "wait"
    /\ rx # <<>>
    /\ LET bytes == Flatten(rx)
           o == ParseResponse(bytes)
       IN  /\ SetResult(o)
           /\ th' = [th EXCEPT ![t].pc = "unlock", ![t].ret = o.ret,
                               ![t].bytes = bytes, ![t].how = "recv",
                               ![t].call = CallReturn("recv"),
                               ![t].got = {rx[i].req : i \in 1..Len(rx)}]
    /\ rx' = <<>>
    /\ UNCHANGED <<sessid, mutex, udpState, sessWrites, wire, udpIn, udpOut, nDatagrams,
                   lst, nQueries, testVars, auxVars>>

\* lscp_client_call: select() returns 0 because nothing became readable
\* within iTimeout; lscp_client_query sets the timeout text as the result.
CallTimeout(t) ==
    /\ th[t].pc = "wait"
    /\ rx = <<>>
    /\ SetResult(TimeoutOutcome)
    /\ th' = [th EXCEPT ![t].pc = "unlock", ![t].ret = TimeoutOutcome.ret,
                        ![t].how = "timeout", ![t].call = CallReturn("timeout")]
    /\ UNCHANGED <<sessid, mutex, udpState, sessWrites, netVars, lst, nQueries, testVars, auxVars>>

\* lscp_client_call: select() fails, or the socket is readable and recv()
\* returns less than one byte (an error, or the end of the stream).
CallWaitFail(t) ==
    /\ th[t].pc = "wait"
    /\ SetResult(QueryLocals)
    /\ \E h \in {"select", "read"} :
         th' = [th EXCEPT ![t].pc = "unlock", ![t].ret = QueryLocals.ret,
                          ![t].how = h, ![t].call = CallReturn(h)]
    /\ UNCHANGED <<sessid, mutex, udpState, sessWrites, netVars, lst, nQueries, testVars, auxVars>>

\* A return of lscp_client_query that keeps the mutex after a timeout.
QueryReturnLocked(t) ==
    /\ th[t].pc = "unlock"
    /\ mutex' = IF th[t].how = "timeout" THEN mutex ELSE NoThread
    /\ th' = IF th[t].op = "query" THEN [th EXCEPT ![t] = IdleThread]
             ELSE [th EXCEPT ![t].pc = "ret"]
    /\ UNCHANGED <<sessid, pszResult, iErrno, udpState, sessWrites, netVars, lst,
                   nQueries, testVars, auxVars>>

\* lscp_mutex_unlock and the return of lscp_client_query; a caller of a plain
\* query is done, a wrapper goes on with the status.
QueryUnlock(t) ==
    /\ th[t].pc = "unlock"
    /\ mutex' = NoThread
    /\ th' = IF th[t].op = "query" THEN [th EXCEPT ![t] = IdleThread]
             ELSE [th EXCEPT ![t].pc = "ret"]
    /\ UNCHANGED <<sessid, pszResult, iErrno, udpState, sessWrites, netVars, lst,
                   nQueries, testVars, auxVars>>

----------------------------------------------------------------------------
(* lscp_client_subscribe and lscp_client_unsubscribe after their query     *)

\* The separators of lscp_client_subscribe: "[]".
SubscribeSeps == {"[", "]"}

\* What a token scan that starts from an uninitialised cursor can bind.
Garbage == <<"?">>

\* The scan of the result buffer by lscp_client_subscribe: the buffer after
\* the in-place writes of the tokenizer, and the session-id found after a
\* first token OK (NULL: none).
SubscribeParse(b) ==
    LET t1 == StrTok(b, SubscribeSeps, 1)
        isOk == t1.tok # 0 /\ EqualNoCase(CStr(t1.buf, t1.tok), <<"O", "K">>)
        t2 == StrTok(t1.buf, SubscribeSeps, t1.pch)
    IN  IF isOk
        THEN [buf |-> t2.buf,
              id |-> IF t2.tok # 0 THEN Ptr(CStr(t2.buf, t2.tok)) ELSE NULL]
        ELSE [buf |-> t1.buf, id |-> NULL]

\* lscp_client_subscribe after lscp_client_query has returned: on LSCP_OK it
\* scans the session's result text, which it reads without the mutex, and
\* assigns the session-id it finds.  With no result text the scan starts
\* from an uninitialised cursor.
ReturnSubscribe(t) ==
    /\ th[t].pc = "ret"
    /\ th[t].op = "subscribe"
    /\ IF th[t].ret # LSCP_OK
       THEN UNCHANGED <<sessid, pszResult, sessWrites>>
       ELSE IF pszResult = NULL
       THEN /\ \E id \in {NULL, Ptr(Garbage)} :
                 /\ sessid' = IF id = NULL THEN sessid ELSE id
                 /\ sessWrites' = IF id = NULL THEN sessWrites ELSE sessWrites + 1
            /\ UNCHANGED pszResult
       ELSE LET r == SubscribeParse(pszResult[1])
            IN  /\ pszResult' = Ptr(r.buf)
                /\ sessid' = IF r.id = NULL THEN sessid ELSE r.id
                /\ sessWrites' = IF r.id = NULL THEN sessWrites ELSE sessWrites + 1
    /\ th' = [th EXCEPT ![t] = IdleThread]
    /\ UNCHANGED <<iErrno, mutex, udpState, netVars, lst, nQueries, testVars, auxVars>>

\* A session-id that survives the unsubscription.
SessidKept == sessid

\* free(pClient->sessid); pClient->sessid = NULL;
SessidCleared == NULL

\* lscp_client_unsubscribe after lscp_client_query has returned: on LSCP_OK
\* it frees the session-id and sets it to NULL.  A listener that has compared
\* the session-id and has not yet formatted its reply is left with a
\* released string.  The idle thread keeps the status that was returned.
ReturnUnsubscribe(t) ==
    /\ th[t].pc = "ret"
    /\ th[t].op = "unsubscribe"
    /\ IF th[t].ret = LSCP_OK
       THEN /\ sessid' = SessidCleared
            /\ sessWrites' = 0
            /\ lst' = [lst EXCEPT !.stale = (lst.pc = "pong")]
       ELSE UNCHANGED <<sessid, sessWrites, lst>>
    /\ th' = [th EXCEPT ![t] = [IdleThread EXCEPT !.op = "unsubscribe",
                                                  !.out = th[t].ret]]
    /\ UNCHANGED <<pszResult, iErrno, mutex, udpState, netVars, nQueries, testVars, auxVars>>

----------------------------------------------------------------------------
(* The typed info queries and their caches                                 *)

\* The info caches of the session.
InfoKinds == {"audio_info", "midi_info", "engine_info", "channel_info"}

\* The cache of kind k after _lscp_driver_info_init, _lscp_engine_info_init
\* or _lscp_channel_info_init.
InfoInit(k) ==
    CASE k = "engine_info" -> EngineInfoInit
      [] k = "channel_info" -> ChannelInfoInit
      [] OTHER -> DriverInfoInit

\* The keywords that the parser of kind k knows, the field each one sets and
\* how its value is converted: "str" by _lscp_unquote, "int" by atoi (and
\* atof, on the integer texts of the model) after _lscp_ltrim, "list" by
\* _lscp_szsplit_create.
InfoKeys(k) ==
    CASE k = "engine_info" ->
           { [key |-> "DESCRIPTION", field |-> "description", type |-> "str"],
             [key |-> "VERSION", field |-> "version", type |-> "str"] }
      [] k = "channel_info" ->
           { [key |-> "ENGINE_NAME", field |-> "engine_name", type |-> "str"],
             [key |-> "AUDIO_OUTPUT_DEVICE", field |-> "audio_device", type |-> "int"],
             [key |-> "AUDIO_OUTPUT_CHANNELS", field |-> "audio_channels", type |-> "int"],
             [key |-> "AUDIO_OUTPUT_ROUTING", field |-> "audio_routing", type |-> "list"],
             [key |-> "INSTRUMENT_FILE", field |-> "instrument_file", type |-> "str"],
             [key |-> "INSTRUMENT_NR", field |-> "instrument_nr", type |-> "int"],
             [key |-> "MIDI_INPUT_DEVICE", field |-> "midi_device", type |-> "int"],
             [key |-> "MIDI_INPUT_PORT", field |-> "midi_port", type |-> "int"],
             [key |-> "MIDI_INPUT_CHANNEL", field |-> "midi_channel", type |-> "int"],
             [key |-> "VOLUME", field |-> "volume", type |-> "int"] }
      [] OTHER ->
           { [key |-> "DESCRIPTION", field |-> "description", type |-> "str"],
             [key |-> "VERSION", field |-> "version", type |-> "str"],
             [key |-> "PARAMETERS", field |-> "parameters", type |-> "list"] }

\* The value that a field of the given type gets from the token val.
InfoValue(type, val) ==
    CASE type = "str" -> Ptr(UnquoteDup(val))
      [] type = "int" -> Atoi(LTrim(val))
      [] OTHER -> Ptr(SzSplit(val))

RECURSIVE InfoLoop(_, _, _, _)
\* The parse loop of the info queries over the result buffer b from cursor
\* p: a keyword up to ':', then its value up to the end of the line.
InfoLoop(keys, b, p, info) ==
    LET t == StrTok(b, {":"}, p)
        ks == {k \in keys : EqualNoCase(CStr(t.buf, t.tok), Chars(k.key))}
        k == CHOOSE k \in ks : TRUE
        v == StrTok(t.buf, {CR, LF}, t.pch)
    IN  IF t.tok = 0 THEN [info |-> info, buf |-> t.buf]
        ELSE IF ks = {} THEN InfoLoop(keys, t.buf, t.pch, info)
        ELSE IF v.tok = 0 THEN InfoLoop(keys, v.buf, v.pch, info)
        ELSE InfoLoop(keys, v.buf, v.pch,
                      [info EXCEPT ![k.field] = InfoValue(k.type, CStr(v.buf, v.tok))])

\* The command line of the info query of kind k.
InfoQuery(k) ==
    CASE k = "audio_info" -> Chars("GET AUDIO_OUTPUT_DRIVER INFO ALSA\r\n")
      [] k = "midi_info" -> Chars("GET MIDI_INPUT_DRIVER INFO ALSA\r\n")
      [] k = "engine_info" -> Chars("GET ENGINE INFO gig\r\n")
      [] OTHER -> Chars("GET CHANNEL INFO 0\r\n")

\* lscp_get_audio_driver_info, lscp_get_midi_driver_info,
\* lscp_get_engine_info and lscp_get_channel_info up to their call of
\* lscp_client_query.
CallInfo(t, k) ==
    /\ th[t].pc = "idle"
    /\ nQueries < MaxQueries
    /\ nQueries' = nQueries + 1
    /\ th' = [th EXCEPT ![t] = [IdleThread EXCEPT !.pc = "lock", !.op = "info",
                                                  !.arg = k, !.cmd = InfoQuery(k),
                                                  !.req = nQueries + 1]]
    /\ UNCHANGED <<sessionVars, netVars, lst, testVars, auxVars>>

\* A failed info query that resets the cache all the same.
CacheResetOnFailure(k) == [cache EXCEPT ![k] = InfoInit(k)]

\* The caches after an info query of kind k whose lscp_client_query did not
\* return LSCP_OK: the function returns before it touches the cache.
CacheAfterFailure(k) == cache

\* The info after a parse that starts from an uninitialised cursor because
\* the result text is null: nothing, or whatever the cursor ran into.
InfoFromNull(k) ==
    { InfoInit(k),
      [InfoInit(k) EXCEPT ![IF k = "channel_info" THEN "engine_name"
                            ELSE "description"] = Ptr(Garbage)] }

\* An info query after lscp_client_query has returned: on LSCP_OK the cache
\* is reset and filled from the session's result text, read without the
\* mutex and tokenized in place, and the address of the cache is returned;
\* otherwise NULL is returned.
ReturnInfo(t) ==
    /\ th[t].pc = "ret"
    /\ th[t].op = "info"
    /\ LET k == th[t].arg
       IN  IF th[t].ret # LSCP_OK
           THEN /\ cache' = CacheAfterFailure(k)
                /\ th' = [th EXCEPT ![t] = [IdleThread EXCEPT !.op = "info", !.arg = k,
                                                              !.out = NULL]]
                /\ UNCHANGED pszResult
           ELSE /\ IF pszResult = NULL
                   THEN /\ \E i \in InfoFromNull(k) : cache' = [cache EXCEPT ![k] = i]
                        /\ UNCHANGED pszResult
                   ELSE LET r == InfoLoop(InfoKeys(k), pszResult[1], 1, InfoInit(k))
                        IN  /\ cache' = [cache EXCEPT ![k] = r.info]
                            /\ pszResult' = Ptr(r.buf)
                /\ th' = [th EXCEPT ![t] = [IdleThread EXCEPT !.op = "info", !.arg = k,
                                                              !.out = Ptr(k)]]
    /\ UNCHANGED <<sessid, iErrno, mutex, udpState, sessWrites, netVars, lst, nQueries,
                   testVars, iTimeout, handled, achBuffer, cr>>

\* The responses that the server chooses from for an info query.
InfoResponses ==
    { Chars("DESCRIPTION: 'b c'\r\nVERSION: 4\r\nPARAMETERS: x, y\r\n"),
      Chars("ENGINE_NAME: g\r\nAUDIO_OUTPUT_ROUTING: 0,1\r\nVOLUME: 4\r\n"),
      Chars("ERR:5:no\r\n") }

----------------------------------------------------------------------------
(* The command wrappers that return the status of their query              *)

\* lscp_load_instrument, lscp_load_engine, lscp_remove_channel,
\* lscp_set_channel_audio_type, lscp_set_channel_audio_channel,
\* lscp_set_channel_midi_type, lscp_set_channel_midi_port,
\* lscp_set_channel_midi_channel (for one channel and for all),
\* lscp_set_channel_volume and lscp_reset_channel.
Wrappers ==
    {"load_instrument", "load_engine", "remove_channel", "set_channel_audio_type",
     "set_channel_audio_channel", "set_channel_midi_type", "set_channel_midi_port",
     "set_channel_midi_channel", "set_channel_midi_channel_all",
     "set_channel_volume", "reset_channel"}

\* The sampler channels that a caller passes.
Channels == {0 - 1, 0}

\* The command line that wrapper w formats for sampler channel ch; the
\* other arguments are a file f.gig, instrument 0, engine gig, driver ALSA,
\* audio channels 0 and 1, MIDI port 0, MIDI channel 1 and volume 1.
WrapperQuery(w, ch) ==
    CASE w = "load_instrument" ->
            Chars("LOAD INSTRUMENT f.gig ") \o Dec(0) \o <<" ">> \o Dec(ch) \o <<CR, LF>>
      [] w = "load_engine" -> Chars("LOAD ENGINE gig ") \o Dec(ch) \o <<CR, LF>>
      [] w = "remove_channel" -> Chars("REMOVE CHANNEL ") \o Dec(ch) \o <<CR, LF>>
      [] w = "set_channel_audio_type" ->
            Chars("SET CHANNEL AUDIO_OUTPUT_TYPE ") \o Dec(ch) \o Chars(" ALSA\r\n")
      [] w = "set_channel_audio_channel" ->
            Chars("SET CHANNEL AUDIO_OUTPUT_CHANNELS ") \o Dec(ch) \o <<" ">> \o Dec(0)
                \o <<" ">> \o Dec(1) \o <<CR, LF>>
      [] w = "set_channel_midi_type" ->
            Chars("SET CHANNEL MIDI_INPUT_TYPE ") \o Dec(ch) \o Chars(" ALSA\r\n")
      [] w = "set_channel_midi_port" ->
            Chars("SET CHANNEL MIDI_INPUT_PORT ") \o Dec(ch) \o <<" ">> \o Dec(0) \o <<CR, LF>>
      [] w = "set_channel_midi_channel" ->
            Chars("SET CHANNEL MIDI_INPUT_CHANNEL ") \o Dec(ch) \o <<" ">> \o Dec(1) \o <<CR, LF>>
      [] w = "set_channel_midi_channel_all" ->
            Chars("SET CHANNEL MIDI_INPUT_CHANNEL ") \o Dec(ch) \o Chars(" ALL\r\n")
      [] w = "set_channel_volume" ->
            Chars("SET CHANNEL VOLUME ") \o Dec(ch) \o <<" ">> \o Dec(1) \o <<CR, LF>>
      [] OTHER -> Chars("RESET CHANNEL ") \o Dec(ch) \o <<CR, LF>>

\* A status wrapper up to its call of lscp_client_query: a negative sampler
\* channel makes it return LSCP_FAILED at once.
CallWrapper(t, w, ch) ==
    /\ th[t].pc = "idle"
    /\ nQueries < MaxQueries
    /\ IF ch < 0
       THEN /\ th' = [th EXCEPT ![t] = [IdleThread EXCEPT !.op = "wrapper", !.arg = w,
                                                          !.out = LSCP_FAILED]]
            /\ UNCHANGED nQueries
       ELSE /\ th' = [th EXCEPT ![t] = [IdleThread EXCEPT !.pc = "lock", !.op = "wrapper",
                                                          !.arg = w,
                                                          !.cmd = WrapperQuery(w, ch),
                                                          !.req = nQueries + 1]]
            /\ nQueries' = nQueries + 1
    /\ UNCHANGED <<sessionVars, netVars, lst, testVars, auxVars>>

\* return lscp_client_query(pClient, szQuery);
ReturnWrapper(t) ==
    /\ th[t].pc = "ret"
    /\ th[t].op = "wrapper"
    /\ th' = [th EXCEPT ![t] = [IdleThread EXCEPT !.op = "wrapper", !.arg = th[t].arg,
                                                  !.out = th[t].ret]]
    /\ UNCHANGED <<sessionVars, netVars, lst, nQueries, testVars, auxVars>>

\* The arguments of a typed call: the sampler channel, the file, engine or
\* driver name, two port or channel numbers, the MIDI channel and the volume.
ValidArgs ==
    [ch |-> 0, name |-> Ptr(Chars("gig")), port |-> 0, port2 |-> 1, midi |-> 1, vol |-> 1]

\* The arguments that a caller passes to the typed call w: each argument
\* that w takes is valid or not, the others do not matter.
ArgsFor(w) ==
    { [ValidArgs EXCEPT !.ch = c, !.name = n, !.port = p, !.port2 = q, !.midi = m, !.vol = v] :
        c \in IF w \in {"audio_info", "midi_info", "engine_info"} THEN {0} ELSE {0 - 1, 0},
        n \in IF w \in {"load_instrument", "load_engine", "set_channel_audio_type",
                        "set_channel_midi_type", "audio_info", "midi_info", "engine_info"}
              THEN {NULL, Ptr(Chars("gig"))} ELSE {Ptr(Chars("gig"))},
        p \in IF w \in {"set_channel_audio_channel", "set_channel_midi_port"}
              THEN {0 - 1, 0} ELSE {0},
        q \in IF w = "set_channel_audio_channel" THEN {0 - 1, 1} ELSE {1},
        m \in IF w = "set_channel_midi_channel" THEN {0 - 1, 0, 16, 17} ELSE {1},
        v \in IF w = "set_channel_volume" THEN {0 - 1, 1} ELSE {1} }

\* The typed calls: the status wrappers and the info queries.
TypedCalls == (Wrappers \ {"set_channel_midi_channel_all"}) \cup InfoKinds

\* A test of the arguments that lets every MIDI channel above 16 through.
ArgsValidAbove16(w, a) ==
    CASE w \in {"load_instrument", "load_engine", "set_channel_audio_type",
                "set_channel_midi_type"} -> a.name # NULL /\ a.ch >= 0
      [] w \in {"audio_info", "midi_info", "engine_info"} -> a.name # NULL
      [] w = "set_channel_audio_channel" -> a.ch >= 0 /\ a.port >= 0 /\ a.port2 >= 0
      [] w = "set_channel_midi_port" -> a.ch >= 0 /\ a.port >= 0
      [] w = "set_channel_midi_channel" -> a.ch >= 0 /\ a.midi >= 0
      [] w = "set_channel_volume" -> a.ch >= 0 /\ a.vol >= 0
      [] OTHER -> a.ch >= 0

\* The test of the arguments that each typed call makes before it formats
\* its command line.
ArgsValid(w, a) ==
    CASE w \in {"load_instrument", "load_engine", "set_channel_audio_type",
                "set_channel_midi_type"} -> a.name # NULL /\ a.ch >= 0
      [] w \in {"audio_info", "midi_info", "engine_info"} -> a.name # NULL
      [] w = "set_channel_audio_channel" -> a.ch >= 0 /\ a.port >= 0 /\ a.port2 >= 0
      [] w = "set_channel_midi_port" -> a.ch >= 0 /\ a.port >= 0
      [] w = "set_channel_midi_channel" -> a.ch >= 0 /\ a.midi >= 0 /\ a.midi <= 16
      [] w = "set_channel_volume" -> a.ch >= 0 /\ a.vol >= 0
      [] OTHER -> a.ch >= 0

\* The command line of the typed call w for arguments that passed its test.
TypedQuery(w, a) ==
    CASE w \in InfoKinds -> InfoQuery(w)
      [] w = "set_channel_midi_channel" ->
            IF a.midi > 0
            THEN Chars("SET CHANNEL MIDI_INPUT_CHANNEL ") \o Dec(a.ch) \o <<" ">>
                     \o Dec(a.midi) \o <<CR, LF>>
            ELSE WrapperQuery("set_channel_midi_channel_all", a.ch)
      [] OTHER -> WrapperQuery(w, a.ch)

\* A typed call up to its call of lscp_client_query: arguments that fail the
\* test make it return LSCP_FAILED or NULL at once.
CallTyped(t, w, a) ==
    /\ th[t].pc = "idle"
    /\ nQueries < MaxQueries
    /\ IF ArgsValid(w, a)
       THEN /\ th' = [th EXCEPT ![t] = [IdleThread EXCEPT
                         !.pc = "lock",
                         !.op = IF w \in InfoKinds THEN "info" ELSE "wrapper",
                         !.arg = w, !.cmd = TypedQuery(w, a), !.req = nQueries + 1]]
            /\ nQueries' = nQueries + 1
       ELSE /\ th' = [th EXCEPT ![t] = [IdleThread EXCEPT
                         !.op = IF w \in InfoKinds THEN "info" ELSE "wrapper",
                         !.arg = w, !.how = "args",
                         !.out = IF w \in InfoKinds THEN NULL ELSE LSCP_FAILED]]
            /\ UNCHANGED nQueries
    /\ UNCHANGED <<sessionVars, netVars, lst, testVars, auxVars>>

----------------------------------------------------------------------------
(* The lists of available drivers and engines                              *)

\* The cached lists: pClient->audio_drivers, midi_drivers and engines.
ListKinds == {"audio_drivers", "midi_drivers", "engines"}

\* The command line of each list query.
ListQuery(k) ==
    CASE k = "audio_drivers" -> Chars("GET AVAILABLE_AUDIO_OUTPUT_DRIVERS\r\n")
      [] k = "midi_drivers" -> Chars("GET AVAILABLE_MIDI_INPUT_DRIVERS\r\n")
      [] OTHER -> Chars("GET AVAILABLE_ENGINES\r\n")

\* lscp_get_available_audio_drivers, lscp_get_available_midi_drivers and
\* lscp_get_available_engines up to their call of lscp_client_query.
CallList(t, k) ==
    /\ th[t].pc = "idle"
    /\ nQueries < MaxQueries
    /\ nQueries' = nQueries + 1
    /\ th' = [th EXCEPT ![t] = [IdleThread EXCEPT !.pc = "lock", !.op = "list",
                                                  !.arg = k, !.cmd = ListQuery(k),
                                                  !.req = nQueries + 1]]
    /\ UNCHANGED <<sessionVars, netVars, lst, testVars, auxVars>>

\* The array after _lscp_szsplit_create was handed a null result text and
\* read through it: none, or one made of whatever was read.
ListFromNull == { NULL, Ptr(<<Garbage>>) }

\* A list query after lscp_client_query has returned: on LSCP_OK the cached
\* array is destroyed and made anew from the session's result text, read
\* without the mutex; the cached array is returned whatever the status.
ReturnList(t) ==
    /\ th[t].pc = "ret"
    /\ th[t].op = "list"
    /\ LET k == th[t].arg
       IN  /\ IF th[t].ret # LSCP_OK THEN cache' = cache
              ELSE IF pszResult = NULL
                   THEN \E l \in ListFromNull : cache' = [cache EXCEPT ![k] = l]
                   ELSE cache' = [cache EXCEPT ![k] = Ptr(SzSplit(pszResult[1]))]
           /\ th' = [th EXCEPT ![t] = [IdleThread EXCEPT !.op = "list", !.arg = k,
                                                         !.how = th[t].ret,
                                                         !.out = cache'[k]]]
    /\ UNCHANGED <<sessionVars, netVars, lst, nQueries, testVars, iTimeout, handled,
                   achBuffer, cr>>

\* The responses that the server chooses from for a list query.
ListResponses == { Chars("ALSA,JACK\r\n"), Chars("gig\r\n"), Chars("ERR:5:no\r\n") }

----------------------------------------------------------------------------
(* lscp_get_channel_buffer_fill and the stream usage array                 *)

\* The largest stream count that the server reports.
MaxStreams == 2

\* The separators of lscp_get_channel_buffer_fill: "[]%,".
FillSeps == {"[", "]", "%", ","}

\* An entry of the array as malloc leaves it.
UninitFill == [stream_id |-> "?", stream_usage |-> "?"]

\* malloc(n * sizeof(lscp_buffer_fill_t)): a new array, told apart from the
\* arrays before it by gen.
NewFill(n) ==
    Ptr([gen |-> IF cache.buffer_fill = NULL THEN 1 ELSE cache.buffer_fill[1].gen + 1,
         items |-> [i \in 1..n |-> UninitFill]])

RECURSIVE FillLoop(_, _, _, _)
\* The parse loop of lscp_get_channel_buffer_fill over the result buffer b
\* from cursor p, with iStream = i entries of the array items filled.
FillLoop(b, p, items, i) ==
    LET t == StrTok(b, FillSeps, p)
        u == StrTok(t.buf, FillSeps, t.pch)
        id == Atoi(CStr(t.buf, t.tok))
    IN  IF t.tok = 0 \/ i >= Len(items) THEN [items |-> items, buf |-> t.buf]
        ELSE IF u.tok = 0
        THEN [items |-> [items EXCEPT ![i + 1].stream_id = id], buf |-> u.buf]
        ELSE FillLoop(u.buf, u.pch,
                      [items EXCEPT ![i + 1] = [stream_id |-> id,
                                                stream_usage |-> Atoi(CStr(u.buf, u.tok))]],
                      i + 1)

\* GET CHANNEL STREAM_COUNT <sampler-channel>
CountQuery == Chars("GET CHANNEL STREAM_COUNT 0\r\n")

\* GET CHANNEL BUFFER_FILL {BYTES|PERCENTAGE} <sampler-channel>
FillQuery(usage) ==
    Chars("GET CHANNEL BUFFER_FILL ") \o Chars(usage) \o Chars(" 0\r\n")

UsageTypes == {"BYTES", "PERCENTAGE"}

\* lscp_get_channel_buffer_fill up to its first query: with a cached stream
\* count it goes on to the buffer-fill query, without one it asks the server
\* for the count first.  arg keeps the cached count that the call found.
CallFill(t, usage) ==
    /\ th[t].pc = "idle"
    /\ nQueries < MaxQueries
    /\ nQueries' = nQueries + 1
    /\ th' = [th EXCEPT ![t] =
                [IdleThread EXCEPT !.pc = "lock",
                                   !.op = IF cache.iStreamCount < 1 THEN "count" ELSE "fill",
                                   !.arg = cache.iStreamCount,
                                   !.usage = usage,
                                   !.cmd = IF cache.iStreamCount < 1 THEN CountQuery
                                           ELSE FillQuery(usage),
                                   !.req = nQueries + 1]]
    /\ UNCHANGED <<sessionVars, netVars, lst, testVars, auxVars>>

\* What lscp_get_channel_stream_count returns after its query: -1 unless
\* the query returned LSCP_OK, else atoi of the result text; atoi of a null
\* result text is whatever the read hits.
StreamCounts(ret) ==
    IF ret # LSCP_OK THEN {0 - 1}
    ELSE IF pszResult = NULL THEN {0, 1}
    ELSE {Atoi(CStr(pszResult[1], 1))}

\* lscp_get_channel_buffer_fill after the count query: without a positive
\* count it returns NULL; else it allocates the array when the count differs
\* from the cached one and goes on to the buffer-fill query.
FillCounted(t) ==
    /\ th[t].pc = "ret"
    /\ th[t].op = "count"
    /\ \E n \in StreamCounts(th[t].ret) :
         IF n < 1
         THEN /\ th' = [th EXCEPT ![t] = [IdleThread EXCEPT !.op = "fill", !.out = NULL]]
              /\ UNCHANGED cache
         ELSE /\ th' = [th EXCEPT ![t] =
                          [IdleThread EXCEPT !.pc = "lock", !.op = "fill",
                                             !.arg = th[t].arg,
                                             !.usage = th[t].usage,
                                             !.cmd = FillQuery(th[t].usage),
                                             !.req = th[t].req]]
              /\ cache' = IF cache.iStreamCount # n
                          THEN [cache EXCEPT !.buffer_fill = NewFill(n),
                                             !.iStreamCount = n]
                          ELSE cache
    /\ UNCHANGED <<sessionVars, netVars, lst, nQueries, testVars, iTimeout, handled, achBuffer, cr>>

\* lscp_get_channel_buffer_fill after the buffer-fill query: on LSCP_OK the
\* pairs of the result text are stored in the array, as many as the cached
\* count allows, and the array is returned; otherwise NULL.
ReturnFill(t) ==
    /\ th[t].pc = "ret"
    /\ th[t].op = "fill"
    /\ IF th[t].ret # LSCP_OK
       THEN /\ th' = [th EXCEPT ![t] = [IdleThread EXCEPT !.op = "fill", !.out = NULL]]
            /\ UNCHANGED <<cache, pszResult>>
       ELSE /\ th' = [th EXCEPT ![t] = [IdleThread EXCEPT !.op = "fill",
                                                          !.out = Ptr("buffer_fill")]]
            /\ IF pszResult = NULL \/ cache.buffer_fill = NULL
               THEN UNCHANGED <<cache, pszResult>>
               ELSE LET r == FillLoop(pszResult[1], 1, cache.buffer_fill[1].items, 0)
                    IN  /\ cache' = [cache EXCEPT !.buffer_fill[1].items = r.items]
                        /\ pszResult' = Ptr(r.buf)
    /\ UNCHANGED <<sessid, iErrno, mutex, udpState, sessWrites, netVars, lst, nQueries,
                   testVars, iTimeout, handled, achBuffer, cr>>

RECURSIVE FillPairs(_)
\* [0]4%,[1]4%,... for m streams.
FillPairs(m) ==
    IF m = 0 THEN <<>>
    ELSE (IF m = 1 THEN <<>> ELSE FillPairs(m - 1) \o <<",">>)
             \o <<"[", Digits[m], "]", "4", "%">>

\* The response to the buffer-fill query of a server with m streams.
FillResponse(m) == FillPairs(m) \o <<CR, LF>>

\* The response to the count query of a server with m streams.
CountResponse(m) == <<Digits[m + 1], CR, LF>>

\* The responses that the server chooses from for the stream queries.
FillResponses ==
    { FillResponse(m) : m \in 1..MaxStreams }
        \cup { CountResponse(m) : m \in 1..MaxStreams }
        \cup { Chars("ERR:5:no\r\n") }

----------------------------------------------------------------------------
(* The server                                                              *)

\* The server reads the oldest request and answers it with response r.
ServerRespond(r) ==
    /\ wire # <<>>
    /\ rx' = Append(rx, [req |-> Head(wire), text |-> r])
    /\ wire' = Tail(wire)
    /\ UNCHANGED <<sessionVars, th, udpIn, udpOut, nDatagrams, lst, nQueries, testVars, auxVars>>

\* The server sends datagram d from address a.
ServerDatagram(d, a) ==
    /\ nDatagrams < MaxDatagrams
    /\ udpIn = <<>>
    /\ nDatagrams' = nDatagrams + 1
    /\ udpIn' = Append(udpIn, [data |-> d, from |-> a])
    /\ UNCHANGED <<sessionVars, th, wire, rx, udpOut, lst, nQueries, testVars, auxVars>>

----------------------------------------------------------------------------
(* _lscp_client_udp_proc, the listener thread                              *)

\* The separators of the listener: " \r\n".
UdpSeps == {" ", CR, LF}

IsPing(d) == HasPrefixNoCase(d, PingPrefix)

\* What the buffer can hold before recvfrom() writes to it: what the last
\* iteration left there, or anything when there was none.
Stale(buf) == IF buf = Uninitialized THEN StackJunk ELSE {buf}

\* The start of the buffer after recvfrom() put datagram d over old
\* contents: the bytes after the datagram are the old ones.
Received(old, d) ==
    [i \in 1..Len(PingPrefix) |-> IF i <= Len(d) THEN d[i] ELSE old[i]]

\* The start of the buffer after achBuffer[cchBuffer] = 0 and the scan
\* that left b of the datagram.
Terminated(old, b) ==
    [i \in 1..Len(PingPrefix) |->
        IF i <= Len(b) THEN b[i] ELSE IF i = Len(b) + 1 THEN NUL ELSE old[i]]

\* The three _lscp_strtok calls on a keepalive datagram.
PingScan(d) ==
    LET t1 == StrTok(d, UdpSeps, 1)
        t2 == StrTok(t1.buf, UdpSeps, t1.pch)
    IN  StrTok(t2.buf, UdpSeps, t2.pch)

\* A scan that takes the field after the keyword for the session-id.
PingTokenNoPort(d) ==
    LET t1 == StrTok(d, UdpSeps, 1)
        t2 == StrTok(t1.buf, UdpSeps, t1.pch)
    IN  IF t2.tok # 0 THEN Ptr(CStr(t2.buf, t2.tok)) ELSE NULL

\* The third token of a keepalive datagram: the session-id field, or NULL.
PingToken(d) ==
    LET t3 == PingScan(d)
    IN  IF t3.tok # 0 THEN Ptr(CStr(t3.buf, t3.tok)) ELSE NULL

ListenerIdle ==
    [pc |-> "recv", tok |-> NULL, from |-> "none", stale |-> FALSE, adopted |-> FALSE]

\* recvfrom() returns a datagram of at least one byte and the buffer starts
\* with the keepalive prefix; the buffer is terminated and its three tokens
\* are scanned.
ListenerKeepalive ==
    /\ lst.pc = "recv"
    /\ udpState
    /\ udpIn # <<>>
    /\ Len(Head(udpIn).data) > 0
    /\ \E old \in Stale(achBuffer) :
         /\ IsPing(Received(old, Head(udpIn).data))
         /\ achBuffer' = Terminated(old, PingScan(Head(udpIn).data).buf)
    /\ LET tok == PingToken(Head(udpIn).data)
       IN  lst' = IF tok # NULL
                  THEN [pc |-> "chk", tok |-> tok, from |-> Head(udpIn).from,
                        stale |-> FALSE, adopted |-> FALSE]
                  ELSE ListenerIdle
    /\ udpIn' = Tail(udpIn)
    /\ UNCHANGED <<sessionVars, th, wire, rx, udpOut, nDatagrams, nQueries, testVars,
                   iTimeout, cache, handled, cr>>

\* A listener that goes on whatever the handler returns.
HandlerAlwaysGoesOn(status) == TRUE

\* The listener goes on after the handler only when it returned LSCP_OK.
HandlerGoesOn(status) == status = LSCP_OK

\* recvfrom() returns a datagram of at least one byte and the buffer does
\* not start with the keepalive prefix; the notification handler gets the
\* session, the buffer, the length received and pvData, and returns status;
\* any status but LSCP_OK clears the running flag.
ListenerNotify(status) ==
    /\ lst.pc = "recv"
    /\ udpState
    /\ udpIn # <<>>
    /\ Len(Head(udpIn).data) > 0
    /\ \E old \in Stale(achBuffer) :
         /\ ~IsPing(Received(old, Head(udpIn).data))
         /\ achBuffer' = Received(old, Head(udpIn).data)
    /\ handled' = Append(handled, [data |-> Head(udpIn).data,
                                   len |-> Len(Head(udpIn).data),
                                   ctx |-> cr.pvData, ret |-> status])
    /\ udpIn' = Tail(udpIn)
    /\ udpState' = HandlerGoesOn(status)
    /\ lst' = IF HandlerGoesOn(status) THEN ListenerIdle
              ELSE [ListenerIdle EXCEPT !.pc = "stopped"]
    /\ UNCHANGED <<sessid, pszResult, iErrno, mutex, sessWrites, th, wire, rx, udpOut,
                   nDatagrams, nQueries, testVars, iTimeout, cache, cr>>

\* recvfrom() returns less than one byte, for an error or for a datagram
\* without data: the running flag is cleared and the loop ends.
ListenerRecvFail ==
    /\ lst.pc = "recv"
    /\ udpState
    /\ udpIn' = IF udpIn # <<>> /\ Len(Head(udpIn).data) = 0 THEN Tail(udpIn) ELSE udpIn
    /\ udpState' = FALSE
    /\ lst' = [ListenerIdle EXCEPT !.pc = "stopped"]
    /\ UNCHANGED <<sessid, pszResult, iErrno, mutex, sessWrites, th, wire, rx, udpOut,
                   nDatagrams, nQueries, testVars, auxVars>>

\* if (pClient->sessid == NULL)
ListenerCheck ==
    /\ lst.pc = "chk"
    /\ lst' = [lst EXCEPT !.pc = IF sessid = NULL THEN "adopt" ELSE "cmp"]
    /\ UNCHANGED <<sessionVars, th, netVars, nQueries, testVars, auxVars>>

\* pClient->sessid = strdup(pszToken)
ListenerAdopt ==
    /\ lst.pc = "adopt"
    /\ sessid' = lst.tok
    /\ sessWrites' = sessWrites + 1
    /\ lst' = [lst EXCEPT !.pc = "cmp", !.adopted = TRUE]
    /\ UNCHANGED <<pszResult, iErrno, mutex, udpState, th, netVars, nQueries, testVars, auxVars>>

\* A comparison that fails for the keepalive whose id was just adopted.
IdMatchedBefore == sessid # NULL /\ sessid = lst.tok /\ ~lst.adopted

\* pClient->sessid && strcmp(pszToken, pClient->sessid) == 0
IdMatches == sessid # NULL /\ sessid = lst.tok

\* if (pClient->sessid && strcmp(pszToken, pClient->sessid) == 0)
ListenerCompare ==
    /\ lst.pc = "cmp"
    /\ lst' = IF IdMatches
              THEN [lst EXCEPT !.pc = "pong"] ELSE ListenerIdle
    /\ UNCHANGED <<sessionVars, th, netVars, nQueries, testVars, auxVars>>

\* The session-id texts that sprintf can read for the reply: the field as it
\* is now, or the string compared before (still in memory when the field
\* was overwritten, released when it was unsubscribed), or the text of a
\* null pointer.
PongIds ==
    IF lst.stale
    THEN {lst.tok[1], NullText} \cup (IF sessid # NULL THEN {sessid[1]} ELSE {})
    ELSE {sessid[1], lst.tok[1]}

\* PONG <session-id>, CR, LF
PongDatagram(id) == <<"P", "O", "N", "G", " ">> \o id \o <<CR, LF>>

\* The start of the buffer after sprintf() wrote text to it.
Printed(text) == SubSeq(text, 1, Len(PingPrefix))

\* sprintf(achBuffer, "PONG %s\r\n", pClient->sessid) and sendto() to the
\* address that the keepalive came from.
ListenerPong ==
    /\ lst.pc = "pong"
    /\ \E id \in PongIds :
         /\ udpOut' = Append(udpOut,
                             [data |-> PongDatagram(id), to |-> lst.from])
         /\ achBuffer' = Printed(PongDatagram(id))
    /\ lst' = ListenerIdle
    /\ UNCHANGED <<sessionVars, th, wire, rx, udpIn, nDatagrams, nQueries, testVars,
                   iTimeout, cache, handled, cr>>

----------------------------------------------------------------------------
(* The specification of the session                                        *)

Next ==
    \/ \E t \in Threads : CallQuery(t)
    \/ \E t \in Threads : CallSubscribe(t)
    \/ \E t \in Threads : CallUnsubscribe(t)
    \/ \E t \in Threads : QueryLock(t)
    \/ \E t \in Threads : CallSend(t)
    \/ \E t \in Threads : CallSendFail(t)
    \/ \E t \in Threads : CallRecv(t)
    \/ \E t \in Threads : CallTimeout(t)
    \/ \E t \in Threads : CallWaitFail(t)
    \/ \E t \in Threads : QueryUnlock(t)
    \/ \E t \in Threads : ReturnSubscribe(t)
    \/ \E t \in Threads : ReturnUnsubscribe(t)
    \/ \E r \in Responses : ServerRespond(r)
    \/ \E d \in Datagrams, a \in Addrs : ServerDatagram(d, a)
    \/ ListenerKeepalive
    \/ \E status \in {LSCP_OK, LSCP_FAILED} : ListenerNotify(status)
    \/ ListenerRecvFail
    \/ ListenerCheck
    \/ ListenerAdopt
    \/ ListenerCompare
    \/ ListenerPong

Spec == Init /\ [][Next]_vars

\* The transaction engine alone: the caller threads and the server's
\* responses, without datagrams and the listener.
NextTx ==
    \/ \E t \in Threads : CallQuery(t)
    \/ \E t \in Threads : CallSubscribe(t)
    \/ \E t \in Threads : CallUnsubscribe(t)
    \/ \E t \in Threads : QueryLock(t)
    \/ \E t \in Threads : CallSend(t)
    \/ \E t \in Threads : CallSendFail(t)
    \/ \E t \in Threads : CallRecv(t)
    \/ \E t \in Threads : CallTimeout(t)
    \/ \E t \in Threads : CallWaitFail(t)
    \/ \E t \in Threads : QueryUnlock(t)
    \/ \E t \in Threads : ReturnSubscribe(t)
    \/ \E t \in Threads : ReturnUnsubscribe(t)
    \/ \E r \in Responses : ServerRespond(r)

SpecTx == Init /\ [][NextTx]_vars

\* Keepalives without a session-id field: with a port only, and bare.
MalformedPings == { Chars("PING 5"), Chars("PING ") }

\* The datagrams that reach the listener: a keepalive, keepalives without a
\* session-id field, an event, an event shorter than the keepalive prefix,
\* the start of the keepalive keyword and a datagram without data.
UdpDatagrams ==
    { PingDatagram(<<"a">>), Chars("EVENT 1"), Chars("EVT"), Chars("PI"), <<>> }
        \cup MalformedPings

\* The listener alone, with the datagrams that the server sends.
NextUdp ==
    \/ \E d \in UdpDatagrams, a \in Addrs : ServerDatagram(d, a)
    \/ ListenerKeepalive
    \/ \E status \in {LSCP_OK, LSCP_FAILED} : ListenerNotify(status)
    \/ ListenerRecvFail
    \/ ListenerCheck
    \/ ListenerAdopt
    \/ ListenerCompare
    \/ ListenerPong

SpecUdp == Init /\ [][NextUdp]_vars

----------------------------------------------------------------------------
(* lscp_client_create                                                      *)

\* The arguments of lscp_client_create: a handler or none, a user context
\* and a host name.
NoCallback == "NULL"
Callbacks == {NoCallback, "cb"}
Contexts == {"ctx", "ctx2", "ctx3"}
Hosts == {"h1", "h2", "h3"}

\* lscp_client_create has been called with its arguments and nothing exists.
Entered(cb, pv, host) ==
    [pc |-> "enter", pfnCallback |-> cb, pvData |-> pv, host |-> host,
     mem |-> "none", tcp |-> "none", udp |-> "none", mutex |-> FALSE,
     thread |-> FALSE, step |-> "none", ret |-> "none"]

\* Before the session exists: no listener, no traffic, memory that
\* malloc() and memset() will hand over zeroed.
InitCreate ==
    /\ sessid = NULL
    /\ pszResult = NULL
    /\ iErrno = 0
    /\ mutex = NoThread
    /\ udpState = FALSE
    /\ th = [t \in Threads |-> IdleThread]
    /\ wire = <<>>
    /\ rx = <<>>
    /\ udpIn = <<>>
    /\ udpOut = <<>>
    /\ lst = [ListenerIdle EXCEPT !.pc = "none"]
    /\ nQueries = 0
    /\ nDatagrams = 0
    /\ sessWrites = 0
    /\ iTimeout = 0
    /\ cache = CacheInit
    /\ handled = <<>>
    /\ achBuffer = Uninitialized
    /\ tin = <<>>
    /\ tout = <<>>
    /\ \E cb \in Callbacks, pv \in Contexts, host \in Hosts : cr = Entered(cb, pv, host)

\* A closesocket() that leaves the socket open.
CloseSocketLeaks(sock) == sock

\* closesocket(sock)
CloseSocket(sock) == "closed"

\* lscp_socket_agent_free: the agent is freed by closing its socket.
AgentFree(sock) == CloseSocket(sock)

\* return NULL after step has failed, with what is left of the resources.
CreateFailed(step, mem, tcp, udp, mtx) ==
    [cr EXCEPT !.pc = "failed", !.step = step, !.mem = mem, !.tcp = tcp,
               !.udp = udp, !.mutex = mtx, !.ret = "NULL"]

createKeeps ==
    <<sessid, pszResult, mutex, th, netVars, nQueries, sessWrites, testVars,
      cache, handled, achBuffer>>

\* if (pfnCallback == NULL) return NULL;
CreateEnter ==
    /\ cr.pc = "enter"
    /\ cr' = IF cr.pfnCallback = NoCallback
             THEN CreateFailed("callback", cr.mem, cr.tcp, cr.udp, cr.mutex)
             ELSE [cr EXCEPT !.pc = "gethostbyname"]
    /\ UNCHANGED <<createKeeps, iErrno, iTimeout, udpState, lst>>

\* pHost = gethostbyname(pszHost)
CreateResolve(ok) ==
    /\ cr.pc = "gethostbyname"
    /\ cr' = IF ok THEN [cr EXCEPT !.pc = "malloc"]
             ELSE CreateFailed("gethostbyname", cr.mem, cr.tcp, cr.udp, cr.mutex)
    /\ UNCHANGED <<createKeeps, iErrno, iTimeout, udpState, lst>>

\* pClient = malloc(...), memset, pfnCallback and pvData
CreateAlloc(ok) ==
    /\ cr.pc = "malloc"
    /\ cr' = IF ok THEN [cr EXCEPT !.pc = "socket_tcp", !.mem = "alloc"]
             ELSE CreateFailed("malloc", cr.mem, cr.tcp, cr.udp, cr.mutex)
    /\ UNCHANGED <<createKeeps, iErrno, iTimeout, udpState, lst>>

\* sock = socket(AF_INET, SOCK_STREAM, 0)
CreateTcpSocket(ok) ==
    /\ cr.pc = "socket_tcp"
    /\ cr' = IF ok THEN [cr EXCEPT !.pc = "connect", !.tcp = "open"]
             ELSE CreateFailed("socket_tcp", "freed", cr.tcp, cr.udp, cr.mutex)
    /\ UNCHANGED <<createKeeps, iErrno, iTimeout, udpState, lst>>

\* connect(sock, ...) and lscp_socket_agent_init(&pClient->tcp, ...)
CreateConnect(ok) ==
    /\ cr.pc = "connect"
    /\ cr' = IF ok THEN [cr EXCEPT !.pc = "socket_udp"]
             ELSE CreateFailed("connect", "freed", CloseSocket(cr.tcp), cr.udp, cr.mutex)
    /\ UNCHANGED <<createKeeps, iErrno, iTimeout, udpState, lst>>

\* sock = socket(AF_INET, SOCK_DGRAM, 0)
CreateUdpSocket(ok) ==
    /\ cr.pc = "socket_udp"
    /\ cr' = IF ok THEN [cr EXCEPT !.pc = "bind", !.udp = "open"]
             ELSE CreateFailed("socket_udp", "freed", AgentFree(cr.tcp), cr.udp, cr.mutex)
    /\ UNCHANGED <<createKeeps, iErrno, iTimeout, udpState, lst>>

\* bind(sock, ...)
CreateBind(ok) ==
    /\ cr.pc = "bind"
    /\ cr' = IF ok THEN [cr EXCEPT !.pc = "getsockname"]
             ELSE CreateFailed("bind", "freed", AgentFree(cr.tcp),
                               CloseSocket(cr.udp), cr.mutex)
    /\ UNCHANGED <<createKeeps, iErrno, iTimeout, udpState, lst>>

\* getsockname(sock, ...), lscp_socket_agent_init(&pClient->udp, ...), the
\* initial values of the session's members and lscp_mutex_init
CreateGetSockName(ok) ==
    /\ cr.pc = "getsockname"
    /\ cr' = IF ok THEN [cr EXCEPT !.pc = "start", !.mutex = TRUE]
             ELSE CreateFailed("getsockname", "freed", AgentFree(cr.tcp),
                               CloseSocket(cr.udp), cr.mutex)
    /\ iErrno' = IF ok THEN 0 - 1 ELSE iErrno
    /\ iTimeout' = IF ok THEN LSCP_TIMEOUT_MSECS ELSE iTimeout
    /\ UNCHANGED <<createKeeps, udpState, lst>>

\* lscp_socket_agent_start(&pClient->udp, _lscp_client_udp_proc, pClient, 0)
\* and return pClient
CreateStart(ok) ==
    /\ cr.pc = "start"
    /\ cr' = IF ok THEN [cr EXCEPT !.pc = "done", !.thread = TRUE, !.ret = "pClient"]
             ELSE CreateFailed("start", "freed", AgentFree(cr.tcp),
                               AgentFree(cr.udp), FALSE)
    /\ udpState' = ok
    /\ lst' = IF ok THEN ListenerIdle ELSE lst
    /\ UNCHANGED <<createKeeps, iErrno, iTimeout>>

NextCreate ==
    \/ CreateEnter
    \/ \E ok \in BOOLEAN : CreateResolve(ok)
    \/ \E ok \in BOOLEAN : CreateAlloc(ok)
    \/ \E ok \in BOOLEAN : CreateTcpSocket(ok)
    \/ \E ok \in BOOLEAN : CreateConnect(ok)
    \/ \E ok \in BOOLEAN : CreateUdpSocket(ok)
    \/ \E ok \in BOOLEAN : CreateBind(ok)
    \/ \E ok \in BOOLEAN : CreateGetSockName(ok)
    \/ \E ok \in BOOLEAN : CreateStart(ok)

SpecCreate == InitCreate /\ [][NextCreate]_vars

\* The requests of the wrappers: subscription, the status wrappers and the
\* transaction engine under them.
NextWire ==
    \/ \E t \in Threads : CallSubscribe(t)
    \/ \E t \in Threads : CallUnsubscribe(t)
    \/ \E t \in Threads, w \in Wrappers, ch \in Channels : CallWrapper(t, w, ch)
    \/ \E t \in Threads : QueryLock(t)
    \/ \E t \in Threads : CallSend(t)
    \/ \E t \in Threads : CallSendFail(t)
    \/ \E t \in Threads : CallRecv(t)
    \/ \E t \in Threads : CallTimeout(t)
    \/ \E t \in Threads : CallWaitFail(t)
    \/ \E t \in Threads : QueryUnlock(t)
    \/ \E t \in Threads : ReturnSubscribe(t)
    \/ \E t \in Threads : ReturnUnsubscribe(t)
    \/ \E t \in Threads : ReturnWrapper(t)
    \/ \E r \in Responses : ServerRespond(r)

SpecWire == Init /\ [][NextWire]_vars

\* The responses that the server chooses from for a typed call.
ArgsResponses == { Chars("VERSION: 4\r\n"), Chars("ERR:5:no\r\n") }

\* Subscriptions and unsubscriptions in every state of the session-id, over
\* the transaction engine.
NextSub ==
    \/ \E t \in Threads : CallSubscribe(t)
    \/ \E t \in Threads : CallUnsubscribe(t)
    \/ \E t \in Threads, op \in {"subscribe", "unsubscribe"} : CallRefused(t, op)
    \/ \E t \in Threads : QueryLock(t)
    \/ \E t \in Threads : CallSend(t)
    \/ \E t \in Threads : CallSendFail(t)
    \/ \E t \in Threads : CallRecv(t)
    \/ \E t \in Threads : CallTimeout(t)
    \/ \E t \in Threads : CallWaitFail(t)
    \/ \E t \in Threads : QueryUnlock(t)
    \/ \E t \in Threads : ReturnSubscribe(t)
    \/ \E t \in Threads : ReturnUnsubscribe(t)
    \/ \E r \in Responses : ServerRespond(r)

SpecSub == Init /\ [][NextSub]_vars

\* The typed calls with arguments of every kind over the transaction engine.
NextArgs ==
    \/ \E t \in Threads, w \in TypedCalls : \E a \in ArgsFor(w) : CallTyped(t, w, a)
    \/ \E t \in Threads : QueryLock(t)
    \/ \E t \in Threads : CallSend(t)
    \/ \E t \in Threads : CallSendFail(t)
    \/ \E t \in Threads : CallRecv(t)
    \/ \E t \in Threads : CallTimeout(t)
    \/ \E t \in Threads : CallWaitFail(t)
    \/ \E t \in Threads : QueryUnlock(t)
    \/ \E t \in Threads : ReturnWrapper(t)
    \/ \E t \in Threads : ReturnInfo(t)
    \/ \E r \in ArgsResponses : ServerRespond(r)

SpecArgs == Init /\ [][NextArgs]_vars

\* The list queries over the transaction engine.
NextList ==
    \/ \E t \in Threads, k \in ListKinds : CallList(t, k)
    \/ \E t \in Threads : QueryLock(t)
    \/ \E t \in Threads : CallSend(t)
    \/ \E t \in Threads : CallSendFail(t)
    \/ \E t \in Threads : CallRecv(t)
    \/ \E t \in Threads : CallTimeout(t)
    \/ \E t \in Threads : CallWaitFail(t)
    \/ \E t \in Threads : QueryUnlock(t)
    \/ \E t \in Threads : ReturnList(t)
    \/ \E r \in ListResponses : ServerRespond(r)

SpecList == Init /\ [][NextList]_vars

\* The timeouts that a caller sets between raw queries.
TimeoutChoices == {0, 1500}

\* Raw queries with the timeout set at any moment.
NextCall ==
    \/ \E t \in Threads : CallQuery(t)
    \/ \E t \in Threads : QueryLock(t)
    \/ \E t \in Threads : CallSend(t)
    \/ \E t \in Threads : CallSendFail(t)
    \/ \E t \in Threads : CallRecv(t)
    \/ \E t \in Threads : CallTimeout(t)
    \/ \E t \in Threads : CallWaitFail(t)
    \/ \E t \in Threads : QueryUnlock(t)
    \/ \E r \in Responses : ServerRespond(r)
    \/ \E v \in TimeoutChoices : SetTimeout(v)

SpecCall == Init /\ [][NextCall]_vars

\* lscp_client_call entered by a caller of its own, without the mutex: the
\* arguments are valid and send() takes the whole request or fails.
ClientCallSend(t) ==
    /\ th[t].pc = "idle"
    /\ nQueries < MaxQueries
    /\ nQueries' = nQueries + 1
    /\ \E sent \in BOOLEAN :
         IF sent
           THEN /\ wire' = Append(wire, nQueries + 1)
                /\ th' = [th EXCEPT ![t] = [IdleThread EXCEPT !.pc = "select", !.op = "call",
                                                              !.req = nQueries + 1,
                                                              !.wait = Timeval(iTimeout)]]
           ELSE /\ wire' = wire
                /\ th' = [th EXCEPT ![t] = [IdleThread EXCEPT !.call = CallReturn("send")]]
    /\ UNCHANGED <<sessionVars, rx, udpIn, udpOut, nDatagrams, lst, testVars, auxVars>>

\* lscp_client_call of that caller: select() and recv(), and the return to
\* the caller, who gets the bytes in a buffer of its own.
ClientCallWait(t) ==
    /\ th[t].pc = "select"
    /\ \E h \in {"recv", "timeout", "select", "read"} :
         /\ h = "recv" => rx # <<>>
         /\ h = "timeout" => rx = <<>>
         /\ rx' = IF h = "recv" THEN <<>> ELSE rx
         /\ th' = [th EXCEPT ![t] = [IdleThread EXCEPT !.call = CallReturn(h),
                                                       !.how = h,
                                                       !.bytes = IF h = "recv" THEN Flatten(rx)
                                                                 ELSE <<>>]]
    /\ UNCHANGED <<sessionVars, wire, udpIn, udpOut, nDatagrams, lst, nQueries, testVars, auxVars>>

\* Callers of lscp_client_query and callers of lscp_client_call on one session.
NextDirect ==
    \/ \E t \in Threads : CallQuery(t)
    \/ \E t \in Threads : QueryLock(t)
    \/ \E t \in Threads : CallSend(t)
    \/ \E t \in Threads : CallSendFail(t)
    \/ \E t \in Threads : CallRecv(t)
    \/ \E t \in Threads : CallTimeout(t)
    \/ \E t \in Threads : CallWaitFail(t)
    \/ \E t \in Threads : QueryUnlock(t)
    \/ \E r \in Responses : ServerRespond(r)
    \/ \E t \in Threads : ClientCallSend(t)
    \/ \E t \in Threads : ClientCallWait(t)

SpecDirect == Init /\ [][NextDirect]_vars

\* Raw queries whose steps are taken in time: the mutex is handed to a
\* waiting thread, send() returns, select() returns at the latest when the
\* timeout has passed, and the thread goes on to unlock.
SpecCallLive ==
    /\ SpecCall
    /\ \A t \in Threads :
          /\ WF_vars(QueryLock(t))
          /\ WF_vars(CallSendFail(t) \/ CallSend(t))
          /\ WF_vars(CallWaitFail(t) \/ CallTimeout(t) \/ CallRecv(t))
          /\ WF_vars(QueryUnlock(t))

\* The largest of the small timeouts that a caller sets.
MaxTimeoutArg == 12

\* The timeouts that a caller sets: small ones, negative ones, the default,
\* one second and more than one second.
TimeoutArgs == ((0 - 3)..MaxTimeoutArg) \cup {LSCP_TIMEOUT_MSECS, 1000, 1500}

NextTimeout == \E v \in TimeoutArgs : SetTimeout(v)

SpecTimeout == Init /\ [][NextTimeout]_vars

\* The typed info queries over the transaction engine.
NextInfo ==
    \/ \E t \in Threads, k \in InfoKinds : CallInfo(t, k)
    \/ \E t \in Threads : QueryLock(t)
    \/ \E t \in Threads : CallSend(t)
    \/ \E t \in Threads : CallSendFail(t)
    \/ \E t \in Threads : CallRecv(t)
    \/ \E t \in Threads : CallTimeout(t)
    \/ \E t \in Threads : CallWaitFail(t)
    \/ \E t \in Threads : QueryUnlock(t)
    \/ \E t \in Threads : ReturnInfo(t)
    \/ \E r \in InfoResponses : ServerRespond(r)

SpecInfo == Init /\ [][NextInfo]_vars

\* The buffer-fill query over the transaction engine.
NextFill ==
    \/ \E t \in Threads, u \in UsageTypes : CallFill(t, u)
    \/ \E t \in Threads : QueryLock(t)
    \/ \E t \in Threads : CallSend(t)
    \/ \E t \in Threads : CallSendFail(t)
    \/ \E t \in Threads : CallRecv(t)
    \/ \E t \in Threads : CallTimeout(t)
    \/ \E t \in Threads : CallWaitFail(t)
    \/ \E t \in Threads : QueryUnlock(t)
    \/ \E t \in Threads : FillCounted(t)
    \/ \E t \in Threads : ReturnFill(t)
    \/ \E r \in FillResponses : ServerRespond(r)

SpecFill == Init /\ [][NextFill]_vars

----------------------------------------------------------------------------
(* The response classifier of lscp_client_query on bounded response lines  *)

\* The longest payload or message text of a generated response.
MaxText == 2

TextChars == {"4", "a", ":", " ", "]"}

RECURSIVE TextsUpTo(_)
\* The texts over TextChars that have at most n characters.
TextsUpTo(n) ==
    IF n = 0 THEN {<<>>}
    ELSE LET shorter == TextsUpTo(n - 1)
         IN  shorter \cup {Append(s, c) : s \in shorter, c \in TextChars}

\* Numeric codes as they are written and what they denote.
Codes == {[s |-> <<"5">>, n |-> 5], [s |-> <<"1", "2">>, n |-> 12]}

\* A response line by its form: OK[<text>], ERR:<code>:<text>,
\* WRN:<code>:<text>, or the bare <text>.
ResponseForms ==
    [form : {"ok", "plain"}, code : {[s |-> <<>>, n |-> 0]}, text : TextsUpTo(MaxText)]
        \cup [form : {"err", "wrn"}, code : Codes, text : TextsUpTo(MaxText)]

\* The bytes of a response line, CR/LF included.
Render(f) ==
    CASE f.form = "ok" -> <<"O", "K", "[">> \o f.text \o <<"]", CR, LF>>
      [] f.form = "err" -> <<"E", "R", "R", ":">> \o f.code.s \o <<":">> \o f.text \o <<CR, LF>>
      [] f.form = "wrn" -> <<"W", "R", "N", ":">> \o f.code.s \o <<":">> \o f.text \o <<CR, LF>>
      [] OTHER -> f.text \o <<CR, LF>>

InitClassify ==
    /\ SessionInit
    /\ tin \in ResponseForms
    /\ tout = <<>>

\* lscp_client_query after lscp_client_call has received the line tin.
QueryReceives ==
    /\ tout = <<>>
    /\ LET o == ParseResponse(Render(tin))
       IN  /\ SetResult(o)
           /\ tout' = <<o.ret>>
    /\ UNCHANGED <<sessid, mutex, udpState, sessWrites, th, netVars, lst, nQueries, tin, auxVars>>

NextClassify == QueryReceives

SpecClassify == InitClassify /\ [][NextClassify]_vars

----------------------------------------------------------------------------
(* _lscp_strtok on bounded buffers                                         *)

\* The longest buffer that is scanned.
MaxBuf == 4

RECURSIVE StringsUpTo(_, _)
\* The strings over chars that have at most n characters.
StringsUpTo(chars, n) ==
    IF n = 0 THEN {<<>>}
    ELSE LET shorter == StringsUpTo(chars, n - 1)
         IN  shorter \cup {Append(s, c) : s \in shorter, c \in chars}

\* The separator sets of the scans: one, two and no separators.
SepSets == { {","}, {",", " "}, {} }

InitStrTok ==
    /\ SessionInit
    /\ tin \in [buf : StringsUpTo({"a", "b", ",", " "}, MaxBuf), seps : SepSets]
    /\ tout = [buf |-> tin.buf, pch |-> 1, toks |-> <<>>, scans |-> 0, done |-> FALSE]

\* One more call of _lscp_strtok: the first with the buffer, the next ones
\* with NULL and the cursor that the call before stored.
StrTokScan ==
    /\ ~tout.done
    /\ LET r == StrTok(tout.buf, tin.seps, tout.pch)
       IN  tout' = IF r.tok = 0
                   THEN [tout EXCEPT !.done = TRUE, !.scans = tout.scans + 1]
                   ELSE [buf |-> r.buf, pch |-> r.pch,
                         toks |-> Append(tout.toks, CStr(r.buf, r.tok)),
                         scans |-> tout.scans + 1, done |-> FALSE]
    /\ UNCHANGED <<sessionVars, th, netVars, lst, nQueries, tin, auxVars>>

NextStrTok == StrTokScan

SpecStrTok == InitStrTok /\ [][NextStrTok]_vars

----------------------------------------------------------------------------
(* _lscp_unquote and _lscp_szsplit_create on bounded texts                 *)

\* The texts that are unquoted and split.
QuoteTexts == StringsUpTo({"a", " ", ",", "\""}, MaxBuf)

InitUnquote ==
    /\ SessionInit
    /\ tin \in [text : QuoteTexts, dup : BOOLEAN]
    /\ tout = <<>>

\* _lscp_unquote(&psz, dup) for psz at the start of the text.
UnquoteCall ==
    /\ tout = <<>>
    /\ LET u == Unquote(tin.text, 1, tin.dup)
       IN  tout' = <<CStr(u.buf, u.str)>>
    /\ UNCHANGED <<sessionVars, th, netVars, lst, nQueries, tin, auxVars>>

NextUnquote == UnquoteCall

SpecUnquote == InitUnquote /\ [][NextUnquote]_vars

InitSplit ==
    /\ SessionInit
    /\ tin \in QuoteTexts
    /\ tout = <<>>

\* _lscp_szsplit_create(text, ",")
SplitCall ==
    /\ tout = <<>>
    /\ tout' = <<SzSplit(tin)>>
    /\ UNCHANGED <<sessionVars, th, netVars, lst, nQueries, tin, auxVars>>

NextSplit == SplitCall

SpecSplit == InitSplit /\ [][NextSplit]_vars

----------------------------------------------------------------------------
(* The array of _lscp_szsplit_create, allocation by allocation             *)

\* The longest comma separated text that is split into an array.
MaxCsv == 8

LSCP_SPLIT_CHUNK1 == 4

\* What malloc leaves in a slot of a new array.
Junk == <<"junk", "junk">>

\* ppszSplit[i] = v on an array of Len(a.arr) slots: a store at or beyond the
\* end of the block is a write outside the array.
Store(a, i, v) ==
    IF i < Len(a.arr) THEN [a EXCEPT !.arr[i + 1] = v]
    ELSE [a EXCEPT !.oob = a.oob \cup {i}]

InitArray ==
    /\ SessionInit
    /\ tin \in StringsUpTo({"a", ","}, MaxCsv)
    /\ tout = <<>>

\* _lscp_szsplit_create up to its loop: the first chunk is allocated and the
\* first item stored, or NULL is returned when malloc or strdup fails.
SplitAlloc ==
    /\ tout = <<>>
    /\ \E ok \in BOOLEAN :
         tout' = IF ok
                 THEN <<Store([pc |-> "loop", ret |-> Ptr(<<"ppszSplit">>),
                               arr |-> [j \in 1..LSCP_SPLIT_CHUNK1 |-> Junk],
                               iSize |-> LSCP_SPLIT_CHUNK1, i |-> 1, oob |-> {}],
                              0, Ptr(SzSplit(tin)[1]))>>
                 ELSE <<[pc |-> "done", ret |-> NULL, arr |-> <<>>, iSize |-> 0,
                         i |-> 0, oob |-> {}]>>
    /\ UNCHANGED <<sessionVars, th, netVars, lst, nQueries, tin, auxVars>>

\* One turn of the loop: the next item is stored at i, and when i reaches
\* iSize the size grows by a chunk and the array is copied into a new block,
\* if malloc gives one.
SplitNext ==
    /\ tout # <<>> /\ tout[1].pc = "loop"
    /\ tout[1].i < Len(SzSplit(tin))
    /\ LET a == Store(tout[1], tout[1].i, Ptr(SzSplit(tin)[tout[1].i + 1]))
           i == a.i + 1
       IN  IF i >= a.iSize
           THEN \E ok \in BOOLEAN :
                  tout' = <<[a EXCEPT !.i = i, !.iSize = a.iSize + LSCP_SPLIT_CHUNK1,
                                     !.arr = IF ok
                                             THEN a.arr \o [j \in 1..LSCP_SPLIT_CHUNK1 |-> Junk]
                                             ELSE a.arr]>>
           ELSE tout' = <<[a EXCEPT !.i = i]>>
    /\ UNCHANGED <<sessionVars, th, netVars, lst, nQueries, tin, auxVars>>

RECURSIVE Terminate(_, _)
\* for ( ; i < iSize; i++) ppszSplit[i] = NULL
Terminate(a, i) ==
    IF i < a.iSize THEN Terminate(Store(a, i, NULL), i + 1) ELSE a

\* No separator is left: the array is null terminated and returned.
SplitReturn ==
    /\ tout # <<>> /\ tout[1].pc = "loop"
    /\ tout[1].i = Len(SzSplit(tin))
    /\ tout' = <<[Terminate(tout[1], tout[1].i) EXCEPT !.pc = "done"]>>
    /\ UNCHANGED <<sessionVars, th, netVars, lst, nQueries, tin, auxVars>>

NextArray == SplitAlloc \/ SplitNext \/ SplitReturn

SpecArray == InitArray /\ [][NextArray]_vars

----------------------------------------------------------------------------
(* The zero byte after the received bytes, in buffers of a small capacity  *)

\* The capacity of achResult and of achBuffer, in bytes.
BufSiz == 6

\* What a receive into a buffer of BufSiz bytes can return: 1 up to BufSiz
\* bytes, here response bytes for the query and datagram bytes, with and
\* without the keepalive keyword, for the listener.
ReceivedBytes(who) ==
    IF who = "query" THEN StringsUpTo({"a", CR, LF}, BufSiz) \ {<<>>}
    ELSE {b \in {PingPrefix \o x : x \in StringsUpTo({"a"}, BufSiz)}
                \cup StringsUpTo({"a", " "}, BufSiz) : Len(b) \in 1..BufSiz}

InitZero ==
    /\ SessionInit
    /\ \E who \in {"query", "listener"} : tin \in [who : {who}, bytes : ReceivedBytes(who)]
    /\ tout = <<>>

\* lscp_client_query after lscp_client_call has returned LSCP_OK with
\* cchResult bytes: trailing CR and LF are counted off and the zero byte is
\* written at achResult[cchResult].
QueryTerminate ==
    /\ tout = <<>> /\ tin.who = "query"
    /\ tout' = <<[zero |-> {Len(TrimCrLf(tin.bytes))}]>>
    /\ UNCHANGED <<sessionVars, th, netVars, lst, nQueries, tin, auxVars>>

\* _lscp_client_udp_proc after recvfrom has returned cchBuffer bytes: a
\* datagram that begins with PING and a blank gets a zero byte at
\* achBuffer[cchBuffer], any other is handed on with its length.
ListenerTerminate ==
    /\ tout = <<>> /\ tin.who = "listener"
    /\ tout' = <<[zero |-> IF HasPrefixNoCase(tin.bytes, PingPrefix)
                           THEN {Len(tin.bytes)} ELSE {}]>>
    /\ UNCHANGED <<sessionVars, th, netVars, lst, nQueries, tin, auxVars>>

NextZero == QueryTerminate \/ ListenerTerminate

SpecZero == InitZero /\ [][NextZero]_vars

----------------------------------------------------------------------------
(* The wait of lscp_client_call for timeouts around the full seconds        *)

\* How far around each full second the timeouts are taken.
MaxAround == 12

\* The timeouts that are armed: the small ones and those around one and two
\* seconds.
ArmedTimeouts ==
    (0..MaxAround) \cup ((1000 - MaxAround)..(1000 + MaxAround))
        \cup ((2000 - MaxAround)..(2000 + MaxAround))

InitArm ==
    /\ SessionInit
    /\ tin \in ArmedTimeouts
    /\ tout = <<>>

\* lscp_client_call with pClient->iTimeout = tin, up to its select().
ArmWait ==
    /\ tout = <<>>
    /\ tout' = <<Timeval(tin)>>
    /\ UNCHANGED <<sessionVars, th, netVars, lst, nQueries, tin, auxVars>>

NextArm == ArmWait

SpecArm == InitArm /\ [][NextArm]_vars

----------------------------------------------------------------------------
(* qsamplerMainForm: the client session and the server process             *)

\* The period of the timer, in milliseconds.
QSAMPLER_TIMER_MSECS == 500

\* The longest start delay from which the timer still counts.
MaxDelay == 3000

\* The form after init() and setup(): no session, no server process object,
\* and the start scheduled at once.  m_pClient and m_pServer are the flags
\* client and server; sessions and procs count the sessions created and not
\* destroyed and the process objects created and not deleted; op and ret are
\* the last operation and what startClient returned.
FormSetup ==
    [client |-> FALSE, server |-> "none", startDelay |-> 1, timerDelay |-> 0,
     sessions |-> 0, procs |-> 0, op |-> "setup", ret |-> FALSE]

\* m_pOptions: whether a local server is started, and the start delay in
\* seconds.
FormOptions == [bServerStart : BOOLEAN, iStartDelay : {0, 1}]

\* stopSchedule()
stopSchedule(f) == [f EXCEPT !.startDelay = 0, !.timerDelay = 0]

\* startSchedule(iStartDelay)
startSchedule(f, iStartDelay) ==
    [f EXCEPT !.startDelay = 1 + (iStartDelay * 1000), !.timerDelay = 0]

\* stopClient()
stopClient(f) ==
    IF ~f.client THEN f
    ELSE [stopSchedule(f) EXCEPT !.client = FALSE, !.sessions = @ - 1]

\* processServerExit()
processServerExit(f) ==
    LET c == stopClient(f)
    IN  IF c.server # "none" THEN [c EXCEPT !.server = "none", !.procs = @ - 1] ELSE c

\* startServer(), with whether QProcess::start() succeeds.
startServer(f, started) ==
    IF ~tin.bServerStart \/ f.client THEN f
    ELSE IF f.server # "none" THEN f
    ELSE LET n == [stopSchedule(f) EXCEPT !.procs = @ + 1]
         IN  IF ~started THEN processServerExit([n EXCEPT !.server = "stopped"])
             ELSE startSchedule([n EXCEPT !.server = "running"], tin.iStartDelay)

\* A startClient() that does not look at m_pClient.
startClientAgain(f, created, loaded, started) ==
    IF ~created
    THEN [IF f.server = "running" \/ ~tin.bServerStart THEN f ELSE startServer(f, started)
            EXCEPT !.ret = FALSE]
    ELSE [stopSchedule(f) EXCEPT !.client = TRUE, !.sessions = @ + 1, !.ret = loaded]

\* startClient(), with whether lscp_client_create() gives a session, what
\* loadSessionFile() or newSession() returns, and whether a server starts.
startClient(f, created, loaded, started) ==
    IF f.client THEN [f EXCEPT !.ret = TRUE]
    ELSE IF ~created
    THEN [IF f.server = "running" \/ ~tin.bServerStart THEN f ELSE startServer(f, started)
            EXCEPT !.ret = FALSE]
    ELSE [stopSchedule(f) EXCEPT !.client = TRUE, !.sessions = @ + 1, !.ret = loaded]

\* stopServer(): a running server is asked to terminate and its exit is
\* awaited; otherwise the final processing is done at once.
stopServer(f) ==
    LET c == stopClient(f)
    IN  IF c.server = "running" THEN c ELSE processServerExit(c)

InitForm ==
    /\ SessionInit
    /\ tin \in FormOptions
    /\ tout = <<FormSetup>>

\* The timer fires: timerSlot().
TimerSlot ==
    /\ tout[1].startDelay <= MaxDelay
    /\ \E created, loaded, started \in BOOLEAN :
         LET f == tout[1]
             d == f.timerDelay + QSAMPLER_TIMER_MSECS
             c == startClient([f EXCEPT !.timerDelay = d], created, loaded, started)
         IN  tout' = <<[(IF f.timerDelay < f.startDelay
                         THEN IF d >= f.startDelay
                              THEN IF ~c.ret
                                   THEN [c EXCEPT !.startDelay = @ + c.timerDelay,
                                                  !.timerDelay = 0]
                                   ELSE c
                              ELSE [f EXCEPT !.timerDelay = d]
                         ELSE f) EXCEPT !.op = "timerSlot"]>>
    /\ UNCHANGED <<sessionVars, th, netVars, lst, nQueries, tin, auxVars>>

StartClient ==
    /\ \E created, loaded, started \in BOOLEAN :
         tout' = <<[startClient(tout[1], created, loaded, started) EXCEPT !.op = "startClient"]>>
    /\ UNCHANGED <<sessionVars, th, netVars, lst, nQueries, tin, auxVars>>

StopClient ==
    /\ tout' = <<[stopClient(tout[1]) EXCEPT !.op = "stopClient"]>>
    /\ UNCHANGED <<sessionVars, th, netVars, lst, nQueries, tin, auxVars>>

StartServer ==
    /\ \E started \in BOOLEAN :
         tout' = <<[startServer(tout[1], started) EXCEPT !.op = "startServer"]>>
    /\ UNCHANGED <<sessionVars, th, netVars, lst, nQueries, tin, auxVars>>

StopServer ==
    /\ tout' = <<[stopServer(tout[1]) EXCEPT !.op = "stopServer"]>>
    /\ UNCHANGED <<sessionVars, th, netVars, lst, nQueries, tin, auxVars>>

\* The server process has ended and its object is still there, or the slot
\* is called as it is: processServerExit().
ProcessServerExit ==
    /\ tout' = <<[processServerExit(tout[1]) EXCEPT !.op = "processServerExit"]>>
    /\ UNCHANGED <<sessionVars, th, netVars, lst, nQueries, tin, auxVars>>

\* The running server process ends by itself; its exit is not yet handled.
ServerEnds ==
    /\ tout[1].server = "running"
    /\ tout' = <<[tout[1] EXCEPT !.server = "stopped", !.op = "none"]>>
    /\ UNCHANGED <<sessionVars, th, netVars, lst, nQueries, tin, auxVars>>

\* fileRestart(), with the user's answer to the warning (asked only while a
\* session exists) and what closeSession(false) returns.
FileRestart ==
    /\ \E restart, closed \in BOOLEAN :
         tout' = <<[(IF (restart \/ ~tout[1].client) /\ closed
                     THEN startSchedule(stopServer(tout[1]), tin.iStartDelay)
                     ELSE tout[1]) EXCEPT !.op = "fileRestart"]>>
    /\ UNCHANGED <<sessionVars, th, netVars, lst, nQueries, tin, auxVars>>

NextForm ==
    \/ TimerSlot
    \/ StartClient
    \/ StopClient
    \/ StartServer
    \/ StopServer
    \/ ProcessServerExit
    \/ ServerEnds
    \/ FileRestart

SpecForm == InitForm /\ [][NextForm]_vars

----------------------------------------------------------------------------
(* The parse loop of the info queries on bounded payloads                  *)

\* The most lines of a payload.
MaxLines == 3

\* The keys of the lines: known to some parsers, in either case, or unknown.
LineKeys == {"FOO", "VERSION", "version", "VOLUME"}

RECURSIVE LinesUpTo(_)
\* The sequences of at most n keys, one per line.
LinesUpTo(n) ==
    IF n = 0 THEN {<<>>}
    ELSE LET shorter == LinesUpTo(n - 1)
         IN  shorter \cup {Append(l, k) : l \in shorter, k \in LineKeys}

RECURSIVE Payload(_)
\* The bytes of the response with the given lines: KEY: 4 CR LF each.
Payload(lines) ==
    IF lines = <<>> THEN <<>>
    ELSE Chars(Head(lines)) \o Chars(": 4\r\n") \o Payload(Tail(lines))

\* The info of kind k that an info query builds from the response bytes:
\* the result text that lscp_client_query stores, then the parse loop.
ParsedInfo(k, bytes) ==
    LET r == SetResultText(ParseResponse(bytes).pszResult)
    IN  InfoLoop(InfoKeys(k), r[1], 1, InfoInit(k)).info

InitParse ==
    /\ SessionInit
    /\ tin \in [lines : LinesUpTo(MaxLines) \ {<<>>}, k : InfoKinds]
    /\ tout = <<>>

\* An info query of kind tin.k whose response is the payload of tin.lines.
InfoParse ==
    /\ tout = <<>>
    /\ tout' = <<ParsedInfo(tin.k, Payload(tin.lines))>>
    /\ UNCHANGED <<sessionVars, th, netVars, lst, nQueries, tin, auxVars>>

NextParse == InfoParse

SpecParse == InitParse /\ [][NextParse]_vars

----------------------------------------------------------------------------
(* Properties                                                              *)

\* Thread t is inside the critical section of lscp_client_query.
InQuery(t) == th[t].pc \in {"send", "wait", "unlock"}

\* C1: at most one lscp_client_query is between taking the mutex and
\* releasing it, and that thread holds the mutex; so a request is sent only
\* when every earlier query has stored its result and released the mutex.
C1_QueriesSerialized ==
    /\ \A t, u \in Threads : t # u => ~(InQuery(t) /\ InQuery(u))
    /\ \A t \in Threads : InQuery(t) => mutex = t

\* One query waits for its response while another waits for the mutex.
C1_Witness ==
    \E t, u \in Threads : th[t].pc = "wait" /\ th[u].pc = "lock"

\* C2: a query that ends with LSCP_OK, LSCP_ERROR or LSCP_WARNING has read
\* the response to its own request and no other.
C2_OwnResponse ==
    \A t \in Threads :
        (th[t].pc = "unlock" /\ th[t].ret \in {LSCP_OK, LSCP_ERROR, LSCP_WARNING})
            => th[t].got = {th[t].req}

C4_ErrnoKept ==
    \A t \in Threads :
        (th[t].pc = "unlock" /\ th[t].ret = LSCP_TIMEOUT)
            => GetErrno = th[t].errnoBefore

\* C4 as amended: after a query that returns LSCP_TIMEOUT the error code is
\* -1, whatever it was before.
C4_ErrnoReset ==
    \A t \in Threads :
        (th[t].pc = "unlock" /\ th[t].ret = LSCP_TIMEOUT) => GetErrno = 0 - 1

\* A query times out in a session whose error code was 5.
C4_Witness ==
    \E t \in Threads :
        th[t].pc = "unlock" /\ th[t].ret = LSCP_TIMEOUT /\ th[t].errnoBefore = 5

\* A payload or message text that is not empty, does not begin with white
\* space and holds no closing bracket, so that the response line reads as
\* the form it was built from in one way only.
PlainText(x) == x # <<>> /\ ~IsSpace(x[1]) /\ \A i \in 1..Len(x) : x[i] # "]"

\* C5: a response OK[<payload>] gives LSCP_OK, error code 0 and the whole
\* payload as the result text; a bare response gives LSCP_OK, error code 0
\* and the whole line without its CR/LF as the result text.  Stated for
\* payloads and lines that satisfy PlainText.
C5_OkPayload ==
    (tout # <<>> /\ tin.form \in {"ok", "plain"} /\ PlainText(tin.text))
        => tout[1] = LSCP_OK /\ GetErrno = 0 /\ GetResult = Ptr(tin.text)

\* C6: a response ERR:<code>:<message> (WRN:<code>:<message>) gives
\* LSCP_ERROR (LSCP_WARNING), the error code <code> and the whole message as
\* the result text.  Stated for messages that satisfy PlainText.
C6_ErrMessage ==
    (tout # <<>> /\ tin.form \in {"err", "wrn"} /\ PlainText(tin.text))
        => /\ tout[1] = (IF tin.form = "err" THEN LSCP_ERROR ELSE LSCP_WARNING)
           /\ GetErrno = tin.code.n
           /\ GetResult = Ptr(tin.text)

\* C7: between two successful unsubscribes the session-id is assigned at
\* most once.
C7_WrittenOnce == sessWrites <= 1

\* The listener moves on.
ListenerStep == lst'.pc # lst.pc

\* C8: the keepalive that the listener adopts becomes the session-id, and a
\* keepalive whose id differs from the bound session-id neither replaces it
\* nor has a PONG sent.
C8_FirstWriterWins ==
    [][ListenerStep =>
          /\ (lst.pc = "adopt" /\ sessid = NULL) => sessid' = lst.tok
          /\ (lst.tok # NULL /\ sessid # NULL /\ sessid # lst.tok)
                => sessid' = sessid /\ udpOut' = udpOut]_vars

\* C9: the reply to a keepalive whose id matched the bound session-id is
\* the one datagram PONG <session-id> CR LF to the keepalive's sender, and a
\* keepalive whose id differs from the bound session-id has nothing sent and
\* leaves the session as it is.
C9_PongMatches ==
    [][ListenerStep =>
          /\ lst.pc = "pong"
                => udpOut' = Append(udpOut, [data |-> PongDatagram(lst.tok[1]),
                                             to |-> lst.from])
          /\ (lst.pc = "cmp" /\ sessid = lst.tok) => lst'.pc = "pong"
          /\ (lst.pc = "cmp" /\ sessid # NULL /\ sessid # lst.tok)
                => udpOut' = udpOut /\ UNCHANGED sessionVars]_vars

\* OK[<id>], CR, LF
TaggedOk(id) == <<"O", "K", "[">> \o id \o <<"]", CR, LF>>

\* C10: when lscp_client_subscribe returns LSCP_OK for the response
\* OK[<id>], the session-id is <id>.
C10_SubscribeBinds ==
    [][\A t \in Threads :
          (/\ th[t].pc = "ret" /\ th[t].op = "subscribe" /\ th[t].ret = LSCP_OK
           /\ th'[t].pc = "idle"
           /\ th[t].bytes = TaggedOk(<<"4", "2">>))
              => sessid' = Ptr(<<"4", "2">>)]_vars

\* C11: when lscp_client_unsubscribe returns after a query that ended with
\* LSCP_OK, the session-id is NULL, whatever bytes the server answered.
C11_UnsubscribeClears ==
    [][\A t \in Threads :
          (/\ th[t].pc = "ret" /\ th[t].op = "unsubscribe" /\ th[t].ret = LSCP_OK
           /\ th'[t].pc = "idle")
              => sessid' = NULL]_vars

\* An unsubscribe has returned LSCP_OK and no session-id is bound.
C11_Witness ==
    \E t \in Threads :
        /\ th[t].pc = "idle" /\ th[t].op = "unsubscribe" /\ th[t].out = LSCP_OK
        /\ sessid = NULL

\* C12: an info query whose lscp_client_query did not return LSCP_OK returns
\* NULL and leaves every cache as it was; an info cache changes only when an
\* info query of its kind returns after LSCP_OK.
C12_FailedKeepsCache ==
    [][/\ \A t \in Threads :
             (/\ th[t].pc = "ret" /\ th[t].op = "info" /\ th[t].ret # LSCP_OK
              /\ th'[t].pc = "idle")
                 => cache' = cache /\ th'[t].out = NULL
       /\ \A k \in InfoKinds :
             cache'[k] # cache[k]
                 => \E t \in Threads :
                        /\ th[t].pc = "ret" /\ th[t].op = "info" /\ th[t].arg = k
                        /\ th[t].ret = LSCP_OK /\ th'[t].pc = "idle"]_vars

\* An info query has failed and returned NULL while its cache holds the
\* snapshot of an earlier successful query.
C12_Witness ==
    \E t \in Threads :
        /\ th[t].pc = "idle" /\ th[t].op = "info" /\ th[t].out = NULL
        /\ cache[th[t].arg] # InfoInit(th[t].arg)

\* C13: a buffer-fill call that found the stream count N cached and whose
\* query is answered by a server that has M streams leaves an array of M
\* entries and the cached count M; with M = N the array is the one that was
\* there before.
C13_FillResized ==
    [][\A t \in Threads, N \in 1..MaxStreams, M \in 1..MaxStreams :
          (/\ th[t].pc = "ret" /\ th[t].op = "fill" /\ th[t].arg = N
           /\ th[t].ret = LSCP_OK /\ th[t].bytes = FillResponse(M)
           /\ th'[t].pc = "idle")
              => /\ cache'.iStreamCount = M
                 /\ cache'.buffer_fill # NULL
                 /\ Len(cache'.buffer_fill[1].items) = M
                 /\ M = N => cache'.buffer_fill[1].gen = cache.buffer_fill[1].gen]_vars

\* C14: the timeout of a new session is 200 ms; lscp_client_set_timeout with
\* t >= 0 returns LSCP_OK and lscp_client_get_timeout then returns t; with
\* t < 0 it returns LSCP_FAILED and the timeout is the one from before the
\* call; the timeout is never negative.
C14_TimeoutSet ==
    /\ GetTimeout >= 0
    /\ tin = <<>> => GetTimeout = 200
    /\ tin # <<>> =>
          IF tin[1] >= 0 THEN tout[1] = LSCP_OK /\ GetTimeout = tin[1]
          ELSE tout[1] = LSCP_FAILED /\ GetTimeout = tout[2]

\* A negative timeout has been refused after another timeout was set.
C14_Witness == tin # <<>> /\ tin[1] < 0 /\ tout[2] = 7

C16_Forwarded ==
    [][/\ (Len(udpIn') < Len(udpIn) /\ ~IsPing(Head(udpIn).data)) =>
              /\ Len(handled') = Len(handled) + 1
              /\ SubSeq(handled', 1, Len(handled)) = handled
              /\ handled'[Len(handled')].data = Head(udpIn).data
              /\ handled'[Len(handled')].len = Len(Head(udpIn).data)
              /\ handled'[Len(handled')].ctx = cr.pvData
       /\ handled' # handled =>
              Len(udpIn') < Len(udpIn) /\ ~IsPing(Head(udpIn).data)]_vars

\* C17: when the handler returns another status than LSCP_OK, or recvfrom()
\* fails, the listener clears the running flag and leaves its loop; once
\* the flag is clear the listener takes no datagram, invokes no handler
\* and sends no PONG, and the flag stays clear.
C17_StoppedForGood ==
    [][/\ (handled' # handled /\ handled'[Len(handled')].ret # LSCP_OK) =>
              ~udpState' /\ lst'.pc = "stopped"
       /\ (lst.pc # "stopped" /\ lst'.pc = "stopped") => ~udpState'
       /\ udpState' => lst'.pc # "stopped"
       /\ ~udpState =>
              /\ ~udpState'
              /\ lst' = lst
              /\ handled' = handled
              /\ udpOut' = udpOut
              /\ Len(udpIn') >= Len(udpIn)]_vars

\* The handler has refused an event and a datagram that came later waits.
C17_Witness ==
    /\ ~udpState
    /\ handled # <<>> /\ handled[Len(handled)].ret # LSCP_OK
    /\ udpIn # <<>>

\* C18: when a step of lscp_client_create fails (no handler, name
\* resolution, TCP socket or connect, UDP socket, bind or port lookup,
\* thread start) it returns NULL, the listener is not running and each
\* socket that was opened has been closed; it returns a session only when
\* no step failed, and that session is the initial one.
C18_CreateFails ==
    /\ cr.step # "none" =>
          /\ cr.pc = "failed"
          /\ cr.ret = "NULL"
          /\ ~udpState /\ ~cr.thread /\ lst.pc = "none"
          /\ cr.tcp \in {"none", "closed"}
          /\ cr.udp \in {"none", "closed"}
    /\ cr.pc = "failed" => cr.step # "none"
    /\ cr.ret = "pClient" =>
          /\ cr.step = "none" /\ cr.pfnCallback # NoCallback
          /\ udpState /\ cr.thread /\ cr.tcp = "open" /\ cr.udp = "open"
          /\ sessid = NULL /\ iErrno = 0 - 1 /\ iTimeout = LSCP_TIMEOUT_MSECS
          /\ (cr.pfnCallback = Created.pfnCallback /\ cr.pvData = Created.pvData
                /\ cr.host = Created.host) => SessionInit
    /\ cr.ret # "none" <=> cr.pc \in {"failed", "done"}

\* The thread start has failed after both sockets were opened.
C18_Witness ==
    cr.step = "start" /\ cr.tcp = "closed" /\ cr.udp = "closed" /\ cr.ret = "NULL"

\* C19: lscp_get_available_audio_drivers, lscp_get_available_midi_drivers
\* and lscp_get_available_engines return NULL when their query returned
\* another status than LSCP_OK, also after an earlier call has succeeded.
C19_ListNullOnFailure ==
    [][\A t \in Threads :
          (th[t].pc = "ret" /\ th[t].op = "list" /\ th[t].ret # LSCP_OK
             /\ th'[t].pc = "idle") => th'[t].out = NULL]_vars

\* One command line: text without CR and LF, then CR, then LF.
OneLine(cmd) ==
    /\ Len(cmd) >= 2
    /\ cmd[Len(cmd) - 1] = CR /\ cmd[Len(cmd)] = LF
    /\ \A i \in 1..(Len(cmd) - 2) : cmd[i] # CR /\ cmd[i] # LF

\* C20: each request that a command wrapper (lscp_client_subscribe and
\* lscp_client_unsubscribe among them) has sent on the TCP connection is
\* one command line that ends with CR and LF.
C20_OneLinePerRequest ==
    \A t \in Threads :
        (th[t].pc = "wait" /\ th[t].op # "query") => OneLine(th[t].cmd)

\* The byte at index i of b is a separator, or i is outside of b.
SepAt(b, seps, i) == i < 1 \/ i > Len(b) \/ b[i] \in seps

\* The maximal run of non-separator characters of b that starts at i.
RunAt(b, seps, i) ==
    SubSeq(b, i, CHOOSE j \in i..Len(b) :
                     /\ \A k \in i..j : b[k] \notin seps
                     /\ SepAt(b, seps, j + 1))

RECURSIVE RunsFrom(_, _, _)
\* The maximal non-empty runs of non-separator characters of b that start
\* at index i or after it, in order.
RunsFrom(b, seps, i) ==
    IF i > Len(b) THEN <<>>
    ELSE IF b[i] \notin seps /\ SepAt(b, seps, i - 1)
         THEN <<RunAt(b, seps, i)>> \o RunsFrom(b, seps, i + 1)
         ELSE RunsFrom(b, seps, i + 1)

\* C21: repeated scans with _lscp_strtok return, in order, the maximal
\* non-empty runs of non-separator characters of the buffer and then no
\* token; a buffer of separators only, or an empty one, gives no token on
\* the first scan.
C21_TokensAreRuns ==
    LET runs == RunsFrom(tin.buf, tin.seps, 1)
    IN  /\ Len(tout.toks) <= Len(runs)
        /\ tout.toks = SubSeq(runs, 1, Len(tout.toks))
        /\ tout.done => tout.toks = runs /\ tout.scans = Len(runs) + 1
        /\ tout.scans > Len(runs) => tout.done

\* Two tokens have come out of a buffer that starts with a separator, and
\* the third scan has reported none.
C21_Witness ==
    /\ tout.done /\ Len(tout.toks) = 2
    /\ tin.buf # <<>> /\ tin.buf[1] \in tin.seps

\* The text s without the white space at its start and at its end.
TrimBoth(s) ==
    LET inside == {i \in 1..Len(s) : ~IsSpace(s[i])}
    IN  IF inside = {} THEN <<>>
        ELSE SubSeq(s, CHOOSE i \in inside : \A k \in inside : i <= k,
                       CHOOSE j \in inside : \A k \in inside : j >= k)

\* The index of the first character of s that is no white space, or 0.
FirstInk(s) ==
    IF \A i \in 1..Len(s) : IsSpace(s[i]) THEN 0
    ELSE CHOOSE i \in 1..Len(s) : ~IsSpace(s[i]) /\ \A k \in 1..(i - 1) : IsSpace(s[k])

\* The index of the quote that closes the one at index q of s, or 0.
ClosingQuote(s, q) ==
    IF \A i \in (q + 1)..Len(s) : s[i] # s[q] THEN 0
    ELSE CHOOSE i \in (q + 1)..Len(s) : s[i] = s[q] /\ \A k \in (q + 1)..(i - 1) : s[k] # s[q]

\* C22: unquoting removes the white space around the text in both forms: a
\* text whose first character after white space is a quote gives what lies
\* between that quote and the next one, without the white space at both
\* ends and with its commas; a text without quote gives the bare text
\* without the white space at both ends.
C22_UnquoteTrims ==
    tout # <<>> =>
        LET s == tin.text
            q == FirstInk(s)
        IN  IF q # 0 /\ s[q] = "\""
            THEN ClosingQuote(s, q) # 0 =>
                     tout[1] = TrimBoth(SubSeq(s, q + 1, ClosingQuote(s, q) - 1))
            ELSE tout[1] = TrimBoth(s)

\* The index of the first character of s at or after p that is no white
\* space, or 0.
InkFrom(s, p) ==
    IF \A i \in p..Len(s) : IsSpace(s[i]) THEN 0
    ELSE CHOOSE i \in p..Len(s) : ~IsSpace(s[i]) /\ \A k \in p..(i - 1) : IsSpace(s[k])

\* The index of the first comma of s at or after p, or 0.
CommaFrom(s, p) ==
    IF \A i \in p..Len(s) : s[i] # "," THEN 0
    ELSE CHOOSE i \in p..Len(s) : s[i] = "," /\ \A k \in p..(i - 1) : s[k] # ","

RECURSIVE ItemsFrom(_, _)
\* The items of the comma separated text s from index p on, where an item
\* is either bare text without quotes or one quoted text with white space
\* around it; ok tells whether the text is of that form.
ItemsFrom(s, p) ==
    LET q == InkFrom(s, p)
    IN  IF q # 0 /\ s[q] = "\""
        THEN LET c == ClosingQuote(s, q)
                 n == IF c = 0 THEN 0 ELSE InkFrom(s, c + 1)
                 rest == IF n # 0 /\ s[n] = "," THEN ItemsFrom(s, n + 1)
                         ELSE [ok |-> n = 0, items |-> <<>>]
             IN  IF c = 0 THEN [ok |-> FALSE, items |-> <<>>]
                 ELSE [ok |-> rest.ok,
                       items |-> <<TrimBoth(SubSeq(s, q + 1, c - 1))>> \o rest.items]
        ELSE LET k == CommaFrom(s, p)
                 item == SubSeq(s, p, (IF k = 0 THEN Len(s) + 1 ELSE k) - 1)
                 rest == IF k = 0 THEN [ok |-> TRUE, items |-> <<>>]
                         ELSE ItemsFrom(s, k + 1)
             IN  [ok |-> rest.ok /\ \A i \in 1..Len(item) : item[i] # "\"",
                  items |-> <<TrimBoth(item)>> \o rest.items]

\* C23: the split on commas returns the items of the text in their order,
\* each one unquoted and without the white space around it, and does not
\* split at a comma inside a quoted item; there is one item more than
\* there are commas outside quotes.
C23_SplitItems ==
    (tout # <<>> /\ ItemsFrom(tin, 1).ok) => tout[1] = ItemsFrom(tin, 1).items

OwnInfo(t, k) ==
    LET r == SetResultText(ParseResponse(th[t].bytes).pszResult)
    IN  IF r = NULL THEN InfoInit(k)
        ELSE InfoLoop(InfoKeys(k), r[1], 1, InfoInit(k)).info

\* C25: with concurrent typed info queries, an info cache changes only to
\* the complete set of fields of the one successful response that an info
\* query of its kind has received; otherwise it keeps its last contents.
\* It never holds parts of another response nor a reset that was not
\* filled again.
C25_CacheWhole ==
    [][\A k \in InfoKinds :
          cache'[k] # cache[k] =>
              \E t \in Threads :
                  /\ th[t].pc = "ret" /\ th[t].op = "info" /\ th[t].arg = k
                  /\ th[t].ret = LSCP_OK /\ th'[t].pc = "idle"
                  /\ cache'[k] = OwnInfo(t, k)]_vars

\* C26: the result text, the error code and the caches (info caches, lists
\* and the stream usage array) are written only by a thread that holds the
\* transaction mutex while it writes; that covers the tokenizing of the
\* result text in place and the reset and the filling of the caches.
C26_WritesUnderMutex ==
    [][(pszResult' # pszResult \/ iErrno' # iErrno \/ cache' # cache) =>
          \E t \in Threads : mutex = t /\ th'[t] # th[t]]_vars

RECURSIVE KnownLines(_, _)
\* The lines whose key the parser of kind k knows, in any case.
KnownLines(k, lines) ==
    IF lines = <<>> THEN <<>>
    ELSE IF \E key \in InfoKeys(k) : EqualNoCase(Chars(Head(lines)), Chars(key.key))
         THEN <<Head(lines)>> \o KnownLines(k, Tail(lines))
         ELSE KnownLines(k, Tail(lines))

\* C27: keys that the parser does not know are ignored: the info built from
\* a successful response is the info built from the same response without
\* the lines of unknown keys, so a known field is stored also after the
\* line of an unknown key; keys match in any case.
C27_UnknownKeysIgnored ==
    tout # <<>> =>
        LET known == KnownLines(tin.k, tin.lines)
        IN  tout[1] = IF known = <<>> THEN InfoInit(tin.k)
                      ELSE ParsedInfo(tin.k, Payload(known))

InFlight == {t \in Threads : th[t].pc \in {"wait", "select"}}

\* C29: at most one TCP transaction is in flight on the session, whether the
\* callers use lscp_client_query or call lscp_client_call themselves.
C29_OneInFlight == Cardinality(InFlight) <= 1

\* What a query that ended as th[t].how tells about itself: the text and the
\* code of the bytes it read, the timeout text with -1, or no text with -1.
OwnOutcome(t) ==
    IF th[t].how = "recv" THEN ParseResponse(th[t].bytes)
    ELSE IF th[t].how = "timeout" THEN TimeoutOutcome
    ELSE QueryLocals

\* C30: when lscp_client_query is about to return, the result text and the
\* error code are both those of this query: the text and code of the response
\* it read, the timeout text and -1 after a timeout, and no text and -1 after
\* a transport failure, whatever the record held before.
C30_RecordReplaced ==
    \A t \in Threads :
        th[t].pc = "unlock" =>
            /\ GetResult = SetResultText(OwnOutcome(t).pszResult)
            /\ GetErrno = OwnOutcome(t).iErrno
            /\ th[t].how \in {"send", "select", "read"} =>
                   GetResult = NULL /\ GetErrno = 0 - 1

\* A query fails on the transport in a session whose earlier query had
\* stored the text and the code 0 of a successful response.
C30_Witness ==
    \E t \in Threads :
        /\ th[t].pc = "unlock" /\ th[t].how \in {"send", "select", "read"}
        /\ th[t].errnoBefore = 0
        /\ GetResult = NULL /\ GetErrno = 0 - 1

\* C31: the array that _lscp_szsplit_create returns for n items has more than
\* n slots, holds the items in the slots 0..n-1 and NULL in the slot n and in
\* every later slot, and no slot at or beyond the end of the block was
\* written.
C31_ArrayTerminated ==
    (tout # <<>> /\ tout[1].ret # NULL) =>
        LET a == tout[1]
            n == Len(SzSplit(tin))
        IN  /\ a.oob = {}
            /\ a.pc = "done" =>
                  /\ Len(a.arr) > n
                  /\ \A j \in 1..n : a.arr[j] = Ptr(SzSplit(tin)[j])
                  /\ \A j \in (n + 1)..Len(a.arr) : a.arr[j] = NULL

\* An argument of the typed call w that is invalid: a negative sampler
\* channel, a null name, a negative port, a MIDI channel outside 0..16 or a
\* negative volume.
InvalidArgument(w, a) ==
    \/ w \notin {"audio_info", "midi_info", "engine_info"} /\ a.ch < 0
    \/ a.name = NULL
    \/ a.port < 0 \/ a.port2 < 0
    \/ a.midi < 0 \/ a.midi > 16
    \/ a.vol < 0

C33_ResultTextKept ==
    [][\A t \in Threads :
          (/\ th[t].pc = "ret" /\ th[t].op = "info" /\ th[t].ret = LSCP_OK
           /\ th'[t].pc = "idle" /\ th'[t].out # NULL)
              => GetResult' = GetResult]_vars

\* C34: the zero byte that lscp_client_query writes after a response and the
\* one that the listener writes after a keepalive are written at an index
\* below the capacity of the buffer, for each length from 1 to the capacity
\* that the receive can return.
C34_ZeroInsideBuffer ==
    tout # <<>> => \A i \in tout[1].zero : i < BufSiz

\* C35: the wait that lscp_client_call arms for a timeout of T milliseconds
\* is a pair of seconds and microseconds that adds up to T and whose
\* microseconds are at least 0 and at most 999999.
C35_TimevalNormal ==
    tout # <<>> =>
        /\ tout[1].tv_sec * 1000 + tout[1].tv_usec \div 1000 = tin
        /\ 0 <= tout[1].tv_usec /\ tout[1].tv_usec <= 999999

\* C36: a datagram that starts with PING and a blank and has no session-id
\* field is taken by the listener without a call of the handler, without a
\* PONG and without a change of the session-id, and the listener goes on to
\* the next datagram.
C36_MalformedPingDropped ==
    [][(/\ lst.pc = "recv" /\ udpIn # <<>> /\ udpIn' = Tail(udpIn)
        /\ Head(udpIn).data \in MalformedPings)
          => /\ handled' = handled /\ udpOut' = udpOut
             /\ sessid' = sessid /\ sessWrites' = sessWrites
             /\ udpState' = udpState /\ lst'.pc = "recv"]_vars

\* The listener has scanned a keepalive without a session-id field and waits
\* for the next datagram: nothing was sent, handled or bound.
C36_Witness ==
    /\ lst.pc = "recv" /\ udpState /\ udpIn = <<>> /\ nDatagrams = 1
    /\ achBuffer = <<"P", "I", "N", "G", NUL>>
    /\ handled = <<>> /\ udpOut = <<>> /\ sessid = NULL

\* lscp_client_unsubscribe has returned LSCP_OK, the session-id is unbound
\* since, and no lscp_client_subscribe is under way.
Unsubscribed ==
    /\ sessid = NULL
    /\ \E t \in Threads :
          th[t].pc = "idle" /\ th[t].op = "unsubscribe" /\ th[t].out = LSCP_OK
    /\ \A t \in Threads : th[t].op # "subscribe"

\* C37: after a successful lscp_client_unsubscribe the session-id stays
\* unbound and no PONG is sent as long as no lscp_client_subscribe is called,
\* whatever keepalives arrive.
C37_StaysUnbound ==
    [][(Unsubscribed /\ \A t \in Threads : th'[t].op # "subscribe")
          => sessid' = NULL /\ udpOut' = udpOut]_vars

\* C38: lscp_client_subscribe entered while a session-id is bound and
\* lscp_client_unsubscribe entered while none is bound return LSCP_FAILED,
\* send nothing and leave the session-id, the result text and the error code
\* as they are; lscp_client_unsubscribe whose query did not return LSCP_OK
\* leaves the session-id as it is.
C38_RefusedOrKept ==
    [][\A t \in Threads :
          /\ (th[t].pc = "idle" /\ th'[t] # th[t]
                 /\ \/ th'[t].op = "subscribe" /\ sessid # NULL
                    \/ th'[t].op = "unsubscribe" /\ sessid = NULL)
                => /\ th'[t].pc = "idle" /\ th'[t].out = LSCP_FAILED
                   /\ UNCHANGED <<wire, sessid, pszResult, iErrno, mutex, nQueries>>
          /\ (th[t].pc = "ret" /\ th[t].op = "unsubscribe" /\ th[t].ret # LSCP_OK
                 /\ th'[t].pc = "idle")
                => sessid' = sessid /\ th'[t].out = th[t].ret]_vars

\* lscp_client_subscribe has been refused in a session whose id is bound and
\* whose result text is that of an earlier query.
C38_Witness ==
    \E t \in Threads :
        /\ th[t].pc = "idle" /\ th[t].op = "subscribe" /\ th[t].how = "args"
        /\ th[t].out = LSCP_FAILED
        /\ sessid # NULL /\ pszResult # NULL /\ wire = <<>>

\* C39: the session-id is released only when the listener is not between
\* its comparison of the session-id and the formatting of its reply, so that
\* the listener never formats a PONG from a released session-id.
C39_ReleasedOutsideHandling ==
    [][(sessid # NULL /\ sessid' = NULL) => (lst.pc # "pong" /\ ~lst'.stale)]_vars

\* C40: in the main form at most one session and at most one server process
\* object exist after every operation; startClient with a session returns
\* true and creates none, stopClient without a session changes nothing and
\* stopClient always ends without a session, startServer creates no process
\* object while a session or a process object exists, and timerSlot creates
\* no session while one exists.
C40_OneSessionOneServer ==
    [][LET f == tout[1]
           g == tout'[1]
       IN  /\ g.sessions <= 1 /\ g.procs <= 1
           /\ g.client = (g.sessions = 1) /\ (g.server # "none") = (g.procs = 1)
           /\ (g.op = "startClient" /\ f.client) => (g.ret /\ g.sessions = f.sessions)
           /\ (g.op = "stopClient" /\ ~f.client) =>
                  g = [f EXCEPT !.op = "stopClient"]
           /\ g.op = "stopClient" => ~g.client /\ g.sessions = 0
           /\ (g.op = "startServer" /\ (f.client \/ f.server # "none")) =>
                  g.procs = f.procs /\ g.server = f.server
           /\ (g.op = "timerSlot" /\ f.client) => g.sessions = f.sessions]_vars

\* startClient has returned true for the session that existed, while the
\* process object of the server exists as well.
C40_Witness ==
    /\ tout[1].op = "startClient" /\ tout[1].ret
    /\ tout[1].client /\ tout[1].sessions = 1
    /\ tout[1].server = "running" /\ tout[1].procs = 1

=============================================================================
